---------------------------- MODULE Spec2Model ----------------------------
(***************************************************************************)
(* A model of the minecraft-proxy repository.  The repository holds three  *)
(* Node.js programs:                                                       *)
(*   - the handshake router (src/mc-proxy-ec2.js, lines 1-326),            *)
(*   - the login proxy      (src/mc-proxy-ec2.js, lines 328-569),          *)
(*   - proxy.js             (src/unnamed/part_001).                        *)
(* Each program is a single-threaded event loop: an action of the model is *)
(* one run-to-completion step, from the start of a handler or the          *)
(* resumption of an await up to the next await or the handler's end.       *)
(* The variable prog says which part of the repository a behaviour runs.   *)
(***************************************************************************)
EXTENDS Integers, Sequences, FiniteSets, Bags, TLC

VARIABLES
    prog,          \* which program / component this behaviour exercises
    now,           \* Date.now(), in milliseconds
    ipBuckets,     \* proxy.js: Map ip -> {tokens, lastRefill}
    failCounts,    \* proxy.js: Map ip -> {count, firstFailTs}
    BAN_MAP,       \* proxy.js: Map ip -> unbanTs
    lastOp,        \* history: the call made by the latest step and its result
    ROUTES,        \* router: the route table, the entries in key order
    lookup,        \* history: the latest findRouteFor call, its host and result
    ec2,           \* the provider's instance: state, published host, port open
    startInProgress, \* router: the flag of startInstanceBackground
    bg,            \* router: where the body of startInstanceBackground stands
    startCmds,     \* history: StartInstancesCommand requests sent
    startCmdAt,    \* history: when the latest of them was sent, << >> if none
    stream,        \* router: the bytes one client sends, handshake first
    sent,          \* router: how many of them have arrived as data events
    buffer,        \* router: the connection handler's `buffer`
    routed,        \* router: the connection handler's `routed`
    listening,     \* router: onClientData is still a 'data' listener
    awaiting,      \* router: onClientData calls waiting for describeInstance
    clientSock,    \* router: the client socket: open, ended, destroyed
    backends,      \* router: the connections proxyToBackend has made
    decisions,     \* history: the hosts decoded and the routes found
    lastStartRequest, \* proxy.js: lastStartRequest
    starting,      \* proxy.js: starting
    backendHost,   \* proxy.js: backendHost
    backendReady,  \* proxy.js: backendReady
    mcServer,      \* proxy.js: mcServer is not null
    tcpServer,     \* proxy.js: tcpServer is not null
    mcClosing,     \* proxy.js: close() has been called on the server in mcServer
    tcpClosing,    \* proxy.js: close() has been called on the server in tcpServer
    mcCloseTimers, \* proxy.js: pending 2 s timers of stopMinecraftFriendlyServer
    tcpCloseTimers, \* proxy.js: pending 2 s timers of stopTcpForwardServer
    startTasks,    \* proxy.js: the startInstance calls that stand at an await
    polls,         \* proxy.js: the pollForIpAndReady calls that have not returned
    ticks,         \* how often the clock of proxy.js has been advanced
    calls,         \* history: ensure-running calls made
    burst,         \* history: the latest burst of concurrent ensure-running calls
    socks,         \* proxy.js: the connections of the forwarding server
    activeSockets, \* proxy.js: activeSockets
    shutdownTimer, \* proxy.js: shutdownTimer, << >> or the time it is due
    stopTasks,     \* proxy.js: the stopInstance calls that stand at an await
    stopCmds,      \* history: StopInstancesCommand requests sent
    emptySince,    \* history: since when the set of active sessions is empty
    activePlayers, \* login proxy: activePlayers
    lastNoPlayersAt, \* login proxy: lastNoPlayersAt, << >> for null
    logins,        \* login proxy: where the login handler of each player stands
    idleChecks,    \* login proxy: the idle checks that stand at an await
    reconciles,    \* proxy.js: the 30 s checks of main() that stand at their await
    whitelistSet,  \* proxy.js: whitelistSet
    fconns         \* proxy.js: per address, the connections the friendly server
                   \* has admitted and that have not logged in yet

vars == <<prog, now, ipBuckets, failCounts, BAN_MAP, lastOp, ROUTES, lookup, ec2,
          startInProgress, bg, startCmds, startCmdAt, stream, sent, buffer, routed, listening,
          awaiting, clientSock, backends, decisions, lastStartRequest, starting,
          backendHost, backendReady, mcServer, tcpServer, mcClosing, tcpClosing,
          mcCloseTimers, tcpCloseTimers, startTasks, polls, ticks,
          calls, burst, socks, activeSockets, shutdownTimer, stopTasks, stopCmds,
          emptySince, activePlayers, lastNoPlayersAt, logins, idleChecks, reconciles,
          whitelistSet, fconns>>

bucketVars == <<ipBuckets>>
banVars == <<failCounts, BAN_MAP>>
routeVars == <<ROUTES, lookup>>
bgVars == <<startInProgress, bg, startCmds, startCmdAt>>
connVars == <<stream, sent, buffer, routed, listening, awaiting, clientSock, backends,
              decisions>>
modeVars == <<backendHost, backendReady, mcServer, tcpServer, mcClosing, tcpClosing,
              mcCloseTimers, tcpCloseTimers>>
proxyVars == <<lastStartRequest, starting, modeVars, startTasks, polls, ticks,
               reconciles>>
callVars == <<calls, burst>>
idleVars == <<socks, activeSockets, shutdownTimer, stopTasks, stopCmds, emptySince>>
loginVars == <<activePlayers, lastNoPlayersAt, logins, idleChecks>>
friendlyVars == <<whitelistSet, fconns>>
\* What the actions of one program leave alone: the state of the others.
outsideAdmission == <<routeVars, ec2, bgVars, connVars, proxyVars, callVars, idleVars,
                      loginVars, friendlyVars>>
outsideRouter == <<now, bucketVars, banVars, lastOp, proxyVars, idleVars, loginVars,
                   friendlyVars>>
outsideProxy == <<bucketVars, banVars, lastOp, routeVars, bgVars, connVars, idleVars,
                  loginVars, friendlyVars>>
outsideIdle == <<bucketVars, banVars, routeVars, bgVars, connVars, callVars,
                 lastStartRequest, starting, startTasks, polls, loginVars, friendlyVars>>
outsideLogin == <<bucketVars, banVars, routeVars, startInProgress, bg, connVars, burst,
                  proxyVars, socks, activeSockets, shutdownTimer, stopTasks, friendlyVars>>
outsideFriendly == <<routeVars, ec2, bgVars, connVars, starting, modeVars, polls,
                     reconciles, idleVars, loginVars>>

None == "none"
Min(a, b) == IF a < b THEN a ELSE b
EmptyMap == [x \in {} |-> 0]

(***************************************************************************)
(* Bounds of the model.                                                    *)
(***************************************************************************)
MaxBucketTicks == 16
MaxBanMinutes == 41
MaxRoutes == 3
MaxPolls == 2
MaxCalls == 2
MaxTicks == 2
MaxIdleMinutes == 11
MaxLogins == 3
MaxConns == 2
MaxFriendlyTicks == 3
MaxHeld == 6
MaxStops == 2
MaxSiegeTicks == 4

\* The source addresses of the clients.
IPs == {"10.0.0.1", "10.0.0.2"}

\* What the latest step did: the call, its argument, its return value and what
\* it found (aux).  flip tells two equal calls in a row apart.
Op(kind, ip, ok, aux) ==
    [kind |-> kind, ip |-> ip, ok |-> ok, aux |-> aux, flip |-> ~lastOp.flip]
NoOp == [kind |-> "none", ip |-> None, ok |-> TRUE, aux |-> 0, flip |-> FALSE]
\* The step from the current state to the next is a call `kind`(ip).
Called(kind, ip) ==
    /\ lastOp'.kind = kind
    /\ lastOp'.ip = ip
    /\ lastOp'.flip # lastOp.flip

(***************************************************************************)
(* proxy.js: rate limiter (token bucket per IP).                           *)
(***************************************************************************)
TOKEN_REFILL_INTERVAL_MS == 15 * 1000
TOKENS_PER_REFILL == 1
MAX_TOKENS == 3
START_ALLOWED_TOKENS == 1

\* ensureBucket(ip): create the bucket lazily.
ensureBucket(buckets, ip, t) ==
    IF ip \in DOMAIN buckets
    THEN buckets
    ELSE buckets @@ (ip :> [tokens |-> START_ALLOWED_TOKENS, lastRefill |-> t])

\* The token count after a refill of `steps` whole intervals.
RefilledUncapped(tokens, steps) == tokens + steps * TOKENS_PER_REFILL
Refilled(tokens, steps) == Min(MAX_TOKENS, tokens + steps * TOKENS_PER_REFILL)

\* The new lastRefill after `steps` whole intervals at time t.
RefillStampReset(lastRefill, steps, t) == t
RefillStamp(lastRefill, steps, t) == lastRefill + steps * TOKEN_REFILL_INTERVAL_MS

\* refillBucket(ip)
refillBucket(buckets, ip, t) ==
    IF ip \notin DOMAIN buckets
    THEN buckets
    ELSE LET b == buckets[ip]
             elapsed == t - b.lastRefill
             steps == elapsed \div TOKEN_REFILL_INTERVAL_MS
         IN  IF steps > 0
             THEN [buckets EXCEPT ![ip] =
                      [tokens |-> Refilled(b.tokens, steps),
                       lastRefill |-> RefillStamp(b.lastRefill, steps, t)]]
             ELSE buckets

\* consumeToken(ip): the buckets after the call, and its return value.
consumeTokenMap(buckets, ip, t) ==
    LET r == refillBucket(ensureBucket(buckets, ip, t), ip, t)
    IN  IF r[ip].tokens >= 1
        THEN [r EXCEPT ![ip].tokens = @ - 1]
        ELSE r

consumeTokenOk(buckets, ip, t) ==
    refillBucket(ensureBucket(buckets, ip, t), ip, t)[ip].tokens >= 1

\* What the bucket would hold after the refill if there were no cap.
uncappedTokens(buckets, ip, t) ==
    LET b == ensureBucket(buckets, ip, t)[ip]
    IN  b.tokens + ((t - b.lastRefill) \div TOKEN_REFILL_INTERVAL_MS) * TOKENS_PER_REFILL

\* One call of consumeToken(ip) at the current time.
ConsumeToken(ip) ==
    /\ prog = "bucket"
    /\ ipBuckets' = consumeTokenMap(ipBuckets, ip, now)
    /\ lastOp' = Op("consumeToken", ip, consumeTokenOk(ipBuckets, ip, now),
                   uncappedTokens(ipBuckets, ip, now))
    /\ UNCHANGED <<prog, now, banVars, outsideAdmission>>

\* Time passes between calls (times are non-decreasing).
BucketDeltas == {5 * 1000, TOKEN_REFILL_INTERVAL_MS, 3 * TOKEN_REFILL_INTERVAL_MS}
BucketTick ==
    /\ prog = "bucket"
    /\ \E d \in BucketDeltas :
          /\ now + d <= MaxBucketTicks * 5 * 1000
          /\ now' = now + d
    /\ lastOp' = Op("tick", None, TRUE, 0)
    /\ UNCHANGED <<prog, bucketVars, banVars, outsideAdmission>>

(***************************************************************************)
(* proxy.js: failure counters and temporary bans.                          *)
(***************************************************************************)
FAIL_MAX == 5
FAIL_WINDOW_MS == 10 * 60 * 1000
BAN_DURATION_MS == 30 * 60 * 1000

\* The test of recordFail that restarts the window.
WindowElapsedNever(t, firstFailTs) == FALSE
WindowElapsed(t, firstFailTs) == t - firstFailTs > FAIL_WINDOW_MS

\* The failure record after counting one more failure at time t.
countFail(fails, ip, t) ==
    LET st == IF ip \in DOMAIN fails THEN fails[ip] ELSE [count |-> 0, firstFailTs |-> t]
    IN  IF WindowElapsed(t, st.firstFailTs)
        THEN [count |-> 1, firstFailTs |-> t]
        ELSE [count |-> st.count + 1, firstFailTs |-> st.firstFailTs]

MapSet(m, k, v) == [x \in DOMAIN m \cup {k} |-> IF x = k THEN v ELSE m[x]]
MapDelete(m, k) == [x \in DOMAIN m \ {k} |-> m[x]]

\* The unban time recordFail stores.
BanUntilShort(t) == t + FAIL_WINDOW_MS
BanUntil(t) == t + BAN_DURATION_MS

\* recordFail(ip): what it does to failCounts and BAN_MAP.
recordFail(ip) ==
    LET st == countFail(failCounts, ip, now)
    IN  IF st.count >= FAIL_MAX
        THEN /\ BAN_MAP' = MapSet(BAN_MAP, ip, BanUntil(now))
             /\ failCounts' = MapDelete(failCounts, ip)
        ELSE /\ failCounts' = MapSet(failCounts, ip, st)
             /\ UNCHANGED BAN_MAP

\* One call of recordFail(ip) at the current time.
RecordFail(ip) ==
    /\ prog = "ban"
    /\ LET st == countFail(failCounts, ip, now)
       IN  /\ recordFail(ip)
           /\ lastOp' = Op("recordFail", ip, st.count >= FAIL_MAX,
                              IF ip \in DOMAIN failCounts THEN failCounts[ip].count ELSE 0)
    /\ UNCHANGED <<prog, now, bucketVars, outsideAdmission>>

\* The expiry test of isBanned.
BanExpiredEarly(t, ts) == t >= ts
BanExpired(t, ts) == t > ts

\* isBanned(ip): its return value.
isBannedResult(bans, ip, t) ==
    IF ip \notin DOMAIN bans THEN FALSE
    ELSE IF BanExpired(t, bans[ip]) THEN FALSE
    ELSE TRUE

\* isBanned(ip): what it does to BAN_MAP.
isBannedMap(bans, ip, t) ==
    IF ip \in DOMAIN bans /\ BanExpired(t, bans[ip]) THEN MapDelete(bans, ip) ELSE bans

\* One call of isBanned(ip) at the current time.
IsBanned(ip) ==
    /\ prog = "ban"
    /\ BAN_MAP' = isBannedMap(BAN_MAP, ip, now)
    /\ lastOp' = Op("isBanned", ip, isBannedResult(BAN_MAP, ip, now),
                   IF ip \in DOMAIN BAN_MAP THEN 1 ELSE 0)
    /\ UNCHANGED <<prog, now, bucketVars, failCounts, outsideAdmission>>

MinuteMs == 60 * 1000
BanDeltas == {10 * MinuteMs, 11 * MinuteMs}
BanTick ==
    /\ prog = "ban"
    /\ \E d \in BanDeltas :
          /\ now + d <= MaxBanMinutes * MinuteMs
          /\ now' = now + d
    /\ lastOp' = Op("tick", None, TRUE, 0)
    /\ UNCHANGED <<prog, bucketVars, banVars, outsideAdmission>>

(***************************************************************************)
(* The compute provider: the EC2 instance as DescribeInstances reports it. *)
(* host is the published address (null while there is none), port says     *)
(* whether the Minecraft server on it accepts connections.                 *)
(***************************************************************************)
Ec2(state, host, port) == [state |-> state, host |-> host, port |-> port]
Ec2Stopped == Ec2("stopped", None, FALSE)
InstanceHost == "ec2-host"

\* The instance changes state by itself or at the owner's hand.
EnvBoot == ec2.state = "pending" /\ ec2' = Ec2("running", InstanceHost, FALSE)
EnvPortOpens == ec2.state = "running" /\ ~ec2.port /\ ec2' = Ec2("running", InstanceHost, TRUE)
EnvStopped == ec2.state \in {"running", "stopping"} /\ ec2' = Ec2Stopped
EnvStarted == ec2.state = "stopped" /\ ec2' = Ec2("pending", None, FALSE)

\* What a StartInstancesCommand does to the instance.
AfterStartCommand(e) == IF e.state = "stopped" THEN Ec2("pending", None, FALSE) ELSE e

(***************************************************************************)
(* Router: host names and the route table.  A string is the sequence of    *)
(* its character codes.                                                    *)
(***************************************************************************)
StartsWith(s, p) == Len(s) >= Len(p) /\ SubSeq(s, 1, Len(p)) = p
EndsWith(s, p) == Len(s) >= Len(p) /\ SubSeq(s, Len(s) - Len(p) + 1, Len(s)) = p
Includes(s, c) == \E i \in 1..Len(s) : s[i] = c
\* s.split('.').length
SplitLength(s) == Cardinality({i \in 1..Len(s) : s[i] = 46}) + 1

Str_a_x_com == <<97, 46, 120, 46, 99, 111, 109>>            \* "a.x.com"
Str_b_x_com == <<98, 46, 120, 46, 99, 111, 109>>            \* "b.x.com"
Str_x_com == <<120, 46, 99, 111, 109>>                      \* "x.com"
Str_y_com == <<121, 46, 99, 111, 109>>                      \* "y.com"
Str_ax_com == <<97, 120, 46, 99, 111, 109>>                 \* "ax.com"
Str_com == <<99, 111, 109>>                                 \* "com"
Str_star_x_com == <<42, 46, 120, 46, 99, 111, 109>>         \* "*.x.com"
Str_star_com == <<42, 46, 99, 111, 109>>                    \* "*.com"
Str_constructor == <<99, 111, 110, 115, 116, 114, 117, 99, 116, 111, 114>>  \* "constructor"
Str_empty == << >>

\* Route values: what routes.json holds under a key.  null is findRouteFor's
\* "no route"; type "undefined" is a value that is no route object.
Route(type, host, port) == [type |-> type, host |-> host, port |-> port]
null == Route("null", None, 0)
L1 == Route("local", "127.0.0.1", 25566)
L2 == Route("local", "127.0.0.1", 25567)
L3 == Route("local", "127.0.0.1", 25565)
L4 == Route("local", "127.0.0.1", 25568)
E1 == Route("ec2", None, 0)
\* A route whose type is neither ec2 nor local.
U1 == Route("bungee", "10.0.0.9", 25565)

\* The entries route tables are built from, and the tables: every choice of at
\* most MaxRoutes entries with distinct keys, in every key order.
RoutePool ==
    { [key |-> Str_a_x_com, val |-> L1],
      [key |-> Str_star_x_com, val |-> L2],
      [key |-> Str_x_com, val |-> L3],
      [key |-> Str_star_com, val |-> L4],
      [key |-> Str_com, val |-> E1] }
Tables ==
    { t \in UNION { [1..n -> RoutePool] : n \in 0..MaxRoutes } :
        \A i, j \in 1..Len(t) : i # j => t[i].key # t[j].key }

\* The hosts looked up.
Hosts == { Str_a_x_com, Str_b_x_com, Str_x_com, Str_y_com, Str_ax_com, Str_com,
           Str_constructor, Str_empty }

\* The members a plain object inherits from Object.prototype whose names are
\* in Hosts; ROUTES is the plain object JSON.parse returns.
ObjectPrototype == { [key |-> Str_constructor, val |-> Route("undefined", "Object", 0)] }

\* ROUTES[host]: the own property, else the inherited one, else undefined
\* (modelled by null: both are falsy).
Get(table, host) ==
    IF \E i \in 1..Len(table) : table[i].key = host
    THEN table[CHOOSE i \in 1..Len(table) : table[i].key = host].val
    ELSE IF \E e \in ObjectPrototype : e.key = host
    THEN (CHOOSE e \in ObjectPrototype : e.key = host).val
    ELSE null

\* pattern.startsWith('*.') && host.endsWith(pattern.slice(1))
WildcardMatches(pattern, host) ==
    /\ StartsWith(pattern, <<42, 46>>)
    /\ EndsWith(host, Tail(pattern))

\* !pattern.includes('*') && pattern.split('.').length >= 2 &&
\* (host === pattern || host.endsWith('.' + pattern))
BareMatches(pattern, host) ==
    /\ ~Includes(pattern, 42)
    /\ SplitLength(pattern) >= 2
    /\ (host = pattern \/ EndsWith(host, <<46>> \o pattern))

\* The entries, in the order of Object.keys(ROUTES), that the wildcard loop
\* and the bare loop of findRouteFor return at; each loop returns at its first.
WildcardHits(table, host) == {i \in 1..Len(table) : WildcardMatches(table[i].key, host)}
BareHits(table, host) == {i \in 1..Len(table) : BareMatches(table[i].key, host)}
FirstHit(hits) == CHOOSE i \in hits : \A j \in hits : i <= j

\* findRouteFor(host) against a table.
findRouteFor(table, host) ==
    IF host = Str_empty THEN null
    ELSE IF Get(table, host) # null THEN Get(table, host)
    ELSE IF WildcardHits(table, host) # {} THEN table[FirstHit(WildcardHits(table, host))].val
    ELSE IF BareHits(table, host) # {} THEN table[FirstHit(BareHits(table, host))].val
    ELSE null

\* loadRoutes(), at start-up and on SIGHUP: the table becomes what the file
\* holds, or {} when the file cannot be read or parsed.
\* lastOp keeps the table it replaced.
LoadRoutes ==
    /\ prog = "route"
    /\ \E t \in Tables : ROUTES' = t
    /\ lookup' = << >>
    /\ lastOp' = [NoOp EXCEPT !.kind = "loadRoutes", !.aux = ROUTES]
    /\ UNCHANGED <<prog, ec2, bgVars, connVars, callVars, now, bucketVars, banVars,
                   proxyVars, idleVars, loginVars, friendlyVars>>

\* The table a call of findRouteFor reads: the global ROUTES, at each of its
\* reads within the one synchronous call.
TableBeforeReload == IF lastOp.kind = "loadRoutes" THEN lastOp.aux ELSE ROUTES
TableAtLookup == ROUTES

\* One call of findRouteFor(host).
FindRoute(host) ==
    /\ prog = "route"
    /\ lookup' = <<host, findRouteFor(TableAtLookup, host)>>
    /\ UNCHANGED <<prog, ROUTES, ec2, bgVars, connVars, callVars, outsideRouter>>

(***************************************************************************)
(* Router: the handshake parser.  A buffer is a sequence of bytes; offsets *)
(* are those of the code (from 0).                                         *)
(***************************************************************************)
\* value << (7 * numRead) as JavaScript computes it, in 32 bits and signed,
\* for a 7-bit value: of the fifth group only the low 4 bits stay, the
\* highest of them as the sign.  (A sixth group is computed and thrown away.)
ShiftGroup(value, numRead) ==
    IF numRead = 0 THEN value
    ELSE IF numRead = 1 THEN value * 128
    ELSE IF numRead = 2 THEN value * 16384
    ELSE IF numRead = 3 THEN value * 2097152
    ELSE IF numRead = 4
    THEN (IF value % 16 >= 8 THEN (value % 16) - 16 ELSE value % 16) * 268435456
    ELSE 0

Incomplete == [st |-> "incomplete", value |-> 0, size |-> 0]
VarIntError == [st |-> "error", value |-> 0, size |-> 0]

\* The limit on the bytes of one VarInt: `if (numRead > 5) throw`.
VarIntTooBigNever(numRead) == FALSE
VarIntTooBig(numRead) == numRead > 5

\* readVarInt(buf, offset): null while the buffer ends inside the VarInt, an
\* exception when it has more than 5 bytes, else {value, size}.  The groups
\* of 7 bits do not overlap, so `result |= value << (7 * numRead)` adds them
\* (the fifth, when its sign bit is set, makes the sum negative).
RECURSIVE readVarIntLoop(_, _, _, _)
readVarIntLoop(buf, offset, numRead, result) ==
    IF offset + numRead >= Len(buf) THEN Incomplete
    ELSE LET read == buf[offset + numRead + 1]
             value == read % 128
             result2 == result + ShiftGroup(value, numRead)
         IN  IF VarIntTooBig(numRead + 1) THEN VarIntError
             ELSE IF read >= 128 THEN readVarIntLoop(buf, offset, numRead + 1, result2)
             ELSE [st |-> "ok", value |-> result2, size |-> numRead + 1]

readVarInt(buf, offset) == readVarIntLoop(buf, offset, 0, 0)

\* buffer.slice(start, end) for 0 <= start: the bytes start..end-1.
Slice(buf, start, end) ==
    IF end <= start THEN << >> ELSE SubSeq(buf, start + 1, Min(end, Len(buf)))

NeedMore == [st |-> "incomplete", host |-> << >>]
ParseError == [st |-> "error", host |-> << >>]

\* The parse of onClientData: "incomplete" where the code returns to wait for
\* more data, "error" where readVarInt throws, else the raw server address.
parseHandshake(buf) ==
    LET lenInfo == readVarInt(buf, 0)
        packetLength == lenInfo.value
        lenSize == lenInfo.size
        idInfo == readVarInt(buf, lenSize)
        afterId == lenSize + idInfo.size
        pvInfo == readVarInt(buf, afterId)
        afterPv == afterId + pvInfo.size
        hostLenInfo == readVarInt(buf, afterPv)
        hostStart == afterPv + hostLenInfo.size
        hostEnd == hostStart + hostLenInfo.value
    IN  IF lenInfo.st = "error" THEN ParseError
        ELSE IF lenInfo.st = "incomplete" THEN NeedMore
        ELSE IF Len(buf) < lenSize + packetLength THEN NeedMore
        ELSE IF idInfo.st = "error" THEN ParseError
        ELSE IF idInfo.st = "incomplete" THEN NeedMore
        ELSE IF pvInfo.st = "error" THEN ParseError
        ELSE IF pvInfo.st = "incomplete" THEN NeedMore
        ELSE IF hostLenInfo.st = "error" THEN ParseError
        ELSE IF hostLenInfo.st = "incomplete" THEN NeedMore
        ELSE IF Len(buf) < hostEnd THEN NeedMore
        ELSE [st |-> "ok", host |-> Slice(buf, hostStart, hostEnd)]

\* normalizeHost(h)
IsSpace(c) == c \in {9, 10, 11, 12, 13, 32}
IsDigit(c) == c >= 48 /\ c <= 57
ToLower(c) == IF c >= 65 /\ c <= 90 THEN c + 32 ELSE c

RECURSIVE TrimStart(_)
TrimStart(h) == IF h # << >> /\ IsSpace(Head(h)) THEN TrimStart(Tail(h)) ELSE h
RECURSIVE TrimEnd(_)
TrimEnd(h) ==
    IF h # << >> /\ IsSpace(h[Len(h)]) THEN TrimEnd(SubSeq(h, 1, Len(h) - 1)) ELSE h

LowerCase(h) == [i \in 1..Len(h) |-> ToLower(h[i])]
DropRootDot(h) == IF EndsWith(h, <<46>>) THEN SubSeq(h, 1, Len(h) - 1) ELSE h
\* strip :port, when what follows the last colon is all digits
DropPort(h) ==
    LET colons == {i \in 1..Len(h) : h[i] = 58}
        colonIdx == CHOOSE i \in colons : \A j \in colons : j <= i
    IN  IF colons # {} /\ colonIdx < Len(h)
           /\ \A k \in (colonIdx + 1)..Len(h) : IsDigit(h[k])
        THEN SubSeq(h, 1, colonIdx - 1)
        ELSE h
DropWww(h) == IF StartsWith(h, <<119, 119, 119, 46>>) THEN SubSeq(h, 5, Len(h)) ELSE h

normalizeHost(h) ==
    IF h = << >> THEN h
    ELSE DropWww(DropPort(DropRootDot(LowerCase(TrimEnd(TrimStart(h))))))

(***************************************************************************)
(* Bursts of ensure-running calls.  A burst is opened by a call made while *)
(* no start or poll sequence is in flight and the instance is stopped; the *)
(* calls made before time passes belong to it.  pending counts its calls   *)
(* that have not yet come to start their poll loop or to return without;   *)
(* fresh: the opening call was not turned away; clean: so far no provider  *)
(* call of the burst has failed and none has found the instance started.   *)
(***************************************************************************)
NoBurst == [open |-> FALSE, calls |-> 0, pending |-> 0, cmds |-> 0, polls |-> 0,
            fresh |-> FALSE, clean |-> FALSE]

\* Whether a call made now belongs to a burst, given that the condition for
\* opening one holds or not.
InBurst(pre) == burst.open \/ pre

\* The burst after a call; passes: the call goes on to an await, cmds: the
\* start commands it sends before that.
BurstCall(pre, passes, cmds) ==
    LET base == IF burst.open THEN burst
                ELSE [open |-> TRUE, calls |-> 0, pending |-> 0, cmds |-> 0, polls |-> 0,
                      fresh |-> passes, clean |-> TRUE]
    IN  IF InBurst(pre)
        THEN [base EXCEPT !.calls = @ + 1,
                          !.pending = @ + (IF passes THEN 1 ELSE 0),
                          !.cmds = @ + cmds]
        ELSE burst

(***************************************************************************)
(* Router: startInstanceBackground.                                        *)
(***************************************************************************)
START_POLL_INTERVAL_MS == 5000
START_TIMEOUT_MS == 5 * 60 * 1000

\* The body of startInstanceBackground: pc is the await it stands at, elapsed
\* is Date.now() - startAt, polls counts the iterations of its loop.
Bg(pc, elapsed, n) == [pc |-> pc, elapsed |-> elapsed, polls |-> n]
BgIdle == Bg("idle", 0, 0)

\* `if (startInProgress) return` : whether a call is a duplicate.
IsDuplicateStartNever(inProgress) == FALSE
IsDuplicateStart(inProgress) == inProgress

\* The call startInstanceBackground(port), up to its first await: a duplicate
\* returns, any other call sets the flag and sends StartInstancesCommand.
startInstanceBackgroundCall ==
    IF IsDuplicateStart(startInProgress)
    THEN UNCHANGED <<startInProgress, bg, startCmds, startCmdAt>>
    ELSE /\ startInProgress' = TRUE
         /\ bg' = Bg("sending", 0, 0)
         /\ startCmds' = startCmds + 1
         /\ startCmdAt' = <<now>>

\* The loop test, and what follows it: the next sleep, or the time-out and
\* the finally block.
WithinStartTimeoutAlways(elapsed) == TRUE
WithinStartTimeout(elapsed) == elapsed < START_TIMEOUT_MS

BgLoop(elapsed, n) ==
    IF WithinStartTimeout(elapsed)
    THEN /\ bg' = Bg("sleeping", elapsed, n)
         /\ UNCHANGED startInProgress
    ELSE /\ bg' = BgIdle
         /\ startInProgress' = FALSE

\* await ec2.send(new StartInstancesCommand(...)).catch(...) returns, the
\* command accepted or refused.
BgStartSent ==
    /\ prog \in {"router", "routerStart"}
    /\ bg.pc = "sending"
    /\ \E accepted \in BOOLEAN :
          ec2' = IF accepted THEN AfterStartCommand(ec2) ELSE ec2
    /\ BgLoop(0, 0)
    /\ calls' = calls
    /\ burst' = IF burst.pending > 0
                THEN [burst EXCEPT !.pending = @ - 1, !.polls = @ + 1]
                ELSE burst
    /\ UNCHANGED <<prog, routeVars, startCmds, startCmdAt, connVars, outsideRouter>>

\* The timer of the loop fires, after the poll interval or, the process
\* being held up, any longer; describeInstance() is called.
BgWake ==
    /\ prog \in {"router", "routerStart"}
    /\ bg.pc = "sleeping"
    /\ \E d \in {START_POLL_INTERVAL_MS, START_TIMEOUT_MS} :
          /\ d = START_POLL_INTERVAL_MS => bg.polls < MaxPolls
          /\ bg' = Bg("describing", Min(bg.elapsed + d, START_TIMEOUT_MS), bg.polls + 1)
    /\ calls' = calls
    /\ burst' = [burst EXCEPT !.open = FALSE]
    /\ UNCHANGED <<prog, routeVars, ec2, startInProgress, startCmds, startCmdAt, connVars, outsideRouter>>

\* describeInstance() returns in the loop: it throws, or reports the instance.
BgDescribed ==
    /\ prog \in {"router", "routerStart"}
    /\ bg.pc = "describing"
    /\ \E threw \in BOOLEAN :
          IF ~threw /\ ec2.state = "running" /\ ec2.host # None
          THEN /\ bg' = [bg EXCEPT !.pc = "probing"]
               /\ UNCHANGED startInProgress
          ELSE BgLoop(bg.elapsed, bg.polls)
    /\ UNCHANGED <<prog, routeVars, ec2, startCmds, startCmdAt, connVars, callVars, outsideRouter>>

\* tryTcpConnect(info.host, port, 1500) resolves.
BgProbed ==
    /\ prog \in {"router", "routerStart"}
    /\ bg.pc = "probing"
    /\ \E ok \in BOOLEAN :
          /\ ok => ec2.state = "running" /\ ec2.port
          /\ IF ok
             THEN /\ bg' = BgIdle
                  /\ startInProgress' = FALSE
             ELSE BgLoop(bg.elapsed, bg.polls)
    /\ UNCHANGED <<prog, routeVars, ec2, startCmds, startCmdAt, connVars, callVars, outsideRouter>>

\* The instance changes while the router runs.
RouterEnv ==
    /\ prog \in {"router", "routerStart"}
    /\ (EnvBoot \/ EnvPortOpens \/ EnvStopped \/ EnvStarted)
    /\ UNCHANGED <<prog, routeVars, bgVars, connVars, callVars, outsideRouter>>

\* A call of startInstanceBackground, as the connection handlers make it.
RouterEnsure ==
    /\ prog = "routerStart"
    /\ calls < MaxCalls
    /\ calls' = calls + 1
    /\ startInstanceBackgroundCall
    /\ LET passes == ~IsDuplicateStart(startInProgress)
       IN  burst' = BurstCall(~startInProgress /\ bg = BgIdle /\ ec2.state = "stopped",
                              passes, IF passes THEN 1 ELSE 0)
    /\ UNCHANGED <<prog, routeVars, ec2, connVars, outsideRouter>>

(***************************************************************************)
(* Router: one client connection.                                          *)
(***************************************************************************)
KICK_TARGET == "127.0.0.1:25567"

\* What proxyToBackend writes first to the backend once connected.
FirstWriteLowered(buf) == [i \in 1..Len(buf) |-> ToLower(buf[i])]
FirstWrite(buf) == buf

\* proxyToBackend(buffer, client, host, port, onClientData): the connection it
\* opens; first is the buffer it was handed.
proxyToBackend(buf, target) ==
    [target |-> target, st |-> "connecting", first |-> buf, written |-> << >>]

\* The backend of a route of type local.
LocalTarget(route) == "local:" \o ToString(route.port)

\* What `buffer = Buffer.concat([buffer, chunk])` leaves in buffer.
ConcatForgetful(buf, chunk) == chunk
Concat(buf, chunk) == buf \o chunk

\* A 'data' event of the client socket with the next k bytes: onClientData
\* runs if it is still a listener, and every pipe passes the chunk on.
ClientData(k) ==
    /\ prog = "router"
    /\ clientSock # "destroyed"
    /\ sent + k <= Len(stream)
    /\ LET chunk == SubSeq(stream, sent + 1, sent + k)
           piped == [i \in 1..Len(backends) |->
                        IF backends[i].st = "connected"
                        THEN [backends[i] EXCEPT !.written = @ \o chunk]
                        ELSE backends[i]]
           buf == Concat(buffer, chunk)
           parsed == parseHandshake(buf)
           serverAddress == normalizeHost(parsed.host)
           route == findRouteFor(ROUTES, serverAddress)
           \* what the handler decided, and the size of the chunk it decided on
           decision == [raw |-> parsed.host, host |-> serverAddress, route |-> route,
                        chunk |-> k]
       IN  /\ sent' = sent + k
           /\ IF ~listening \/ routed
              THEN /\ backends' = piped
                   /\ UNCHANGED <<buffer, routed, awaiting, clientSock, decisions>>
              ELSE /\ buffer' = buf
                   /\ CASE parsed.st = "incomplete" ->
                             /\ backends' = piped
                             /\ UNCHANGED <<routed, awaiting, clientSock, decisions>>
                        [] parsed.st = "error" ->
                             /\ clientSock' = "ended"
                             /\ routed' = TRUE
                             /\ backends' = piped
                             /\ UNCHANGED <<awaiting, decisions>>
                        [] parsed.st = "ok" /\ route.type = "ec2" ->
                             /\ awaiting' = awaiting + 1
                             /\ decisions' = Append(decisions, decision)
                             /\ backends' = piped
                             /\ UNCHANGED <<routed, clientSock>>
                        [] parsed.st = "ok" /\ route.type = "local" ->
                             /\ backends' = Append(piped, proxyToBackend(buf, LocalTarget(route)))
                             /\ routed' = TRUE
                             /\ decisions' = Append(decisions, decision)
                             /\ UNCHANGED <<awaiting, clientSock>>
                        [] OTHER ->
                             /\ backends' = Append(piped, proxyToBackend(buf, KICK_TARGET))
                             /\ routed' = TRUE
                             /\ decisions' = Append(decisions, decision)
                             /\ UNCHANGED <<awaiting, clientSock>>
    /\ UNCHANGED <<prog, routeVars, ec2, bgVars, stream, listening, callVars, outsideRouter>>

\* `info.state === 'running' && info.host`
InstanceUsableAlways(info) == TRUE
InstanceUsable(info) == info.state = "running" /\ info.host # None

\* describeInstance() returns to an onClientData call that found an ec2
\* route: it throws (kick), reports the instance running with a host (proxy to
\* it), or anything else (start it in the background, kick).
ClientDescribed ==
    /\ prog = "router"
    /\ awaiting > 0
    /\ awaiting' = awaiting - 1
    /\ routed' = TRUE
    /\ \E threw \in BOOLEAN :
          /\ lastOp' = Op("describe", None, ~threw, 0)
          /\ IF threw
             THEN /\ backends' = Append(backends, proxyToBackend(buffer, KICK_TARGET))
                  /\ UNCHANGED bgVars
             ELSE IF InstanceUsable(ec2)
             THEN /\ backends' = Append(backends, proxyToBackend(buffer, ec2.host))
                  /\ UNCHANGED bgVars
             ELSE /\ startInstanceBackgroundCall
                  /\ backends' = Append(backends, proxyToBackend(buffer, KICK_TARGET))
    /\ UNCHANGED <<prog, routeVars, ec2, stream, sent, buffer, listening, clientSock,
                   decisions, callVars, now, bucketVars, banVars, proxyVars, idleVars,
                   loginVars, friendlyVars>>

\* The connect callback of proxyToBackend: the buffer is written, the sockets
\* are piped, onClientData stops listening.
BackendConnected(i) ==
    /\ prog = "router"
    /\ i \in 1..Len(backends)
    /\ backends[i].st = "connecting"
    /\ backends' = [backends EXCEPT ![i].st = "connected",
                                    ![i].written = FirstWrite(backends[i].first)]
    /\ listening' = FALSE
    /\ UNCHANGED <<prog, routeVars, ec2, bgVars, stream, sent, buffer, routed, awaiting,
                   clientSock, decisions, callVars, outsideRouter>>

\* A backend connection fails or ends: 'error' and 'close' both end the client.
BackendClosed(i) ==
    /\ prog = "router"
    /\ i \in 1..Len(backends)
    /\ backends[i].st \in {"connecting", "connected"}
    /\ backends' = [backends EXCEPT ![i].st = "closed"]
    /\ clientSock' = IF clientSock = "open" THEN "ended" ELSE clientSock
    /\ UNCHANGED <<prog, routeVars, ec2, bgVars, stream, sent, buffer, routed, listening,
                   awaiting, decisions, callVars, outsideRouter>>

\* The client socket closes: every cleanup registered so far destroys its
\* backend and the client.
ClientClosed ==
    /\ prog = "router"
    /\ clientSock # "destroyed"
    /\ clientSock' = "destroyed"
    /\ backends' = [i \in 1..Len(backends) |-> [backends[i] EXCEPT !.st = "closed"]]
    /\ UNCHANGED <<prog, routeVars, ec2, bgVars, stream, sent, buffer, routed, listening,
                   awaiting, decisions, callVars, outsideRouter>>

(***************************************************************************)
(* proxy.js: starting the instance and waiting for it.                     *)
(***************************************************************************)
START_DEBOUNCE_MS == 30000
POLL_DEADLINE_MS == 6 * 60000

\* The calls that stand at an await are kept as bags: which of two calls
\* came first makes no difference to what either does next.
One(x) == SetToBag({x})
Without(bag, x) == bag (-) One(x)
With(bag, x) == bag (+) One(x)
Replace(bag, x, y) == With(Without(bag, x), y)

\* `if (now - lastStartRequest < START_DEBOUNCE_MS) return`
DebouncedNever(t, last) == FALSE
Debounced(t, last) == t - last < START_DEBOUNCE_MS

\* proxy.js is run in two ways.  As "proxy" the callback of close() runs
\* before any other event, so that a stopped server is gone at once; as
\* "mode" the callback and the 2 s timer that stands in for it run when they
\* may, between the other events.
InProxy == prog \in {"proxy", "mode"}
DeferredCloses == prog = "mode"

\* The 2 s timers of the two stop functions that may be pending at once,
\* and the startInstance() and stopInstance() calls of a "mode" run.
MaxCloseTimers == 1
MaxModeCalls == 1
MaxModeStops == 1
CallsBound == IF DeferredCloses THEN MaxModeCalls ELSE MaxCalls
StopsBound == IF DeferredCloses THEN MaxModeStops ELSE MaxStops

\* A server listens from its creation until close() is called on it; the
\* variable keeps the closed server until a callback sets it to null.
McListening == mcServer /\ ~mcClosing
TcpListening == tcpServer /\ ~tcpClosing

\* stopMinecraftFriendlyServer(): `if (!mcServer) return`; close() is called
\* with a callback that sets mcServer to null, and a 2 s timer is set that
\* does the same; mcServer itself is left as it is.
stopMinecraftFriendlyServer ==
    IF DeferredCloses
    THEN /\ mcServer' = mcServer
         /\ mcClosing' = mcServer
         /\ mcCloseTimers' = IF mcServer THEN Min(mcCloseTimers + 1, MaxCloseTimers)
                             ELSE mcCloseTimers
    ELSE /\ mcServer' = FALSE
         /\ UNCHANGED <<mcClosing, mcCloseTimers>>

\* stopTcpForwardServer(), the same for tcpServer
stopTcpForwardServer ==
    IF DeferredCloses
    THEN /\ tcpServer' = tcpServer
         /\ tcpClosing' = tcpServer
         /\ tcpCloseTimers' = IF tcpServer THEN Min(tcpCloseTimers + 1, MaxCloseTimers)
                              ELSE tcpCloseTimers
    ELSE /\ tcpServer' = FALSE
         /\ UNCHANGED <<tcpClosing, tcpCloseTimers>>

\* `if (tcpServer) return; tcpServer = net.createServer(...)`: a server is
\* made unless the variable still holds one, be it a closed one.
createTcpServer ==
    /\ tcpServer' = TRUE
    /\ tcpClosing' = (tcpServer /\ tcpClosing)
    /\ UNCHANGED tcpCloseTimers

\* startMinecraftFriendlyServer(): `if (mcServer) return; mcServer =
\* mc.createServer(...)`
startMinecraftFriendlyServer ==
    /\ mcServer' = TRUE
    /\ mcClosing' = (mcServer /\ mcClosing)
    /\ UNCHANGED mcCloseTimers

\* stopMinecraftFriendlyServer(); if (tcpServer) return; tcpServer = ...
switchToTcpForwardMode ==
    /\ stopMinecraftFriendlyServer
    /\ createTcpServer

\* The call pollForIpAndReady(), up to its first await.
NewPoll == [pc |-> "describing", deadline |-> now + POLL_DEADLINE_MS]

\* The burst after a provider call has returned to one of its calls: the call
\* is done or goes on, has sent cmds start commands, has started a poll loop
\* or not; ok: the provider call succeeded and found the instance stopped.
BurstStep(task, done, cmds, started, ok) ==
    IF task.mine
    THEN [burst EXCEPT !.pending = @ - (IF done THEN 1 ELSE 0),
                       !.cmds = @ + cmds,
                       !.polls = @ + (IF started THEN 1 ELSE 0),
                       !.clean = @ /\ ok]
    ELSE burst

\* startInstance(), up to its first await.
startInstanceCall ==
    /\ calls' = calls + 1
    /\ LET debounced == Debounced(now, lastStartRequest)
           pre == startTasks = EmptyBag /\ polls = EmptyBag /\ ec2.state = "stopped"
       IN  /\ burst' = BurstCall(pre, ~debounced, 0)
           /\ IF debounced
              THEN UNCHANGED <<lastStartRequest, startTasks>>
              ELSE /\ lastStartRequest' = now
                   /\ startTasks' = With(startTasks,
                                         [pc |-> "describing", mine |-> InBurst(pre)])

\* A call of startInstance(), by the login of an allowed player or by the
\* admin's POST /start, up to its first await.
StartInstance ==
    /\ InProxy
    /\ calls < CallsBound
    /\ startInstanceCall
    /\ UNCHANGED <<prog, now, ec2, starting, modeVars, polls, ticks, reconciles, startCmds, startCmdAt,
                   startInProgress, bg, bucketVars, banVars, lastOp, routeVars, connVars,
                   idleVars, loginVars, friendlyVars>>

\* describeInstance() returns to startInstance: it throws, or reports the
\* instance running or pending (poll only), or anything else (start it).
StartDescribed ==
    /\ InProxy
    /\ \E task \in BagToSet(startTasks) :
          /\ task.pc = "describing"
          /\ \E threw \in BOOLEAN :
                IF threw
                THEN /\ startTasks' = Without(startTasks, task)
                     /\ burst' = BurstStep(task, TRUE, 0, FALSE, FALSE)
                     /\ UNCHANGED <<starting, polls, startCmds, startCmdAt>>
                ELSE IF ec2.state \in {"running", "pending"}
                THEN /\ startTasks' = Without(startTasks, task)
                     /\ polls' = With(polls, NewPoll)
                     /\ burst' = BurstStep(task, TRUE, 0, TRUE, FALSE)
                     /\ UNCHANGED <<starting, startCmds, startCmdAt>>
                ELSE /\ starting' = TRUE
                     /\ startCmds' = startCmds + 1
                     /\ startCmdAt' = <<now>>
                     /\ startTasks' = Replace(startTasks, task, [task EXCEPT !.pc = "sending"])
                     /\ burst' = BurstStep(task, FALSE, 1, FALSE, ec2.state = "stopped")
                     /\ UNCHANGED polls
    /\ UNCHANGED <<prog, now, ec2, lastStartRequest, modeVars, ticks, reconciles, calls,
                   startInProgress, bg, bucketVars, banVars, lastOp, routeVars, connVars,
                   idleVars, loginVars, friendlyVars>>

\* ec2.send(new StartInstancesCommand(...)) returns to startInstance: the
\* command is accepted and the poll begins, or it throws.
StartSent ==
    /\ InProxy
    /\ \E task \in BagToSet(startTasks) :
          /\ task.pc = "sending"
          /\ startTasks' = Without(startTasks, task)
          /\ \E accepted \in BOOLEAN :
                IF accepted
                THEN /\ ec2' = AfterStartCommand(ec2)
                     /\ polls' = With(polls, NewPoll)
                     /\ burst' = BurstStep(task, TRUE, 0, TRUE, TRUE)
                ELSE /\ burst' = BurstStep(task, TRUE, 0, FALSE, FALSE)
                     /\ UNCHANGED <<ec2, polls>>
    /\ UNCHANGED <<prog, now, lastStartRequest, starting, modeVars, ticks, reconciles, calls, startCmds, startCmdAt,
                   startInProgress, bg, bucketVars, banVars, lastOp, routeVars, connVars,
                   idleVars, loginVars, friendlyVars>>

\* `await sleep(3000)` at the end of an iteration of pollForIpAndReady: the
\* timer is set, and fires once the clock has moved on.
Sleep(poll) == [poll EXCEPT !.pc = "sleeping"]
TimerDue(poll) == IF poll.pc = "sleeping" THEN [poll EXCEPT !.pc = "waking"] ELSE poll

\* describeInstance() returns to pollForIpAndReady.
PollDescribed ==
    /\ InProxy
    /\ \E poll \in BagToSet(polls) :
          /\ poll.pc = "describing"
          /\ \E threw \in BOOLEAN :
                polls' = Replace(polls, poll,
                             IF ~threw /\ ec2.state = "running" /\ ec2.host # None
                             THEN [poll EXCEPT !.pc = "probing"]
                             ELSE Sleep(poll))
    /\ UNCHANGED <<prog, now, ec2, lastStartRequest, starting, modeVars, startTasks, ticks, reconciles,
                   callVars, bgVars, bucketVars, banVars, lastOp, routeVars, connVars,
                   idleVars, loginVars, friendlyVars>>

\* checkTcpOpen(ip, TARGET_PORT, 2000) resolves in pollForIpAndReady: open, the
\* backend is ready and the proxy forwards; else the loop sleeps.
PollProbed ==
    /\ InProxy
    /\ \E poll \in BagToSet(polls) :
          /\ poll.pc = "probing"
          /\ \E open \in BOOLEAN :
                /\ open => ec2.state = "running" /\ ec2.port
                /\ IF open
                   THEN /\ backendHost' = InstanceHost
                        /\ backendReady' = TRUE
                        /\ starting' = FALSE
                        /\ switchToTcpForwardMode
                        /\ polls' = Without(polls, poll)
                   ELSE /\ polls' = Replace(polls, poll, Sleep(poll))
                        /\ UNCHANGED <<starting, modeVars>>
    /\ UNCHANGED <<prog, now, ec2, lastStartRequest, startTasks, ticks, reconciles,
                   callVars, bgVars, bucketVars, banVars, lastOp, routeVars, connVars,
                   idleVars, loginVars, friendlyVars>>

\* The sleep of pollForIpAndReady ends and the loop tests its deadline.
PollWake ==
    /\ InProxy
    /\ \E poll \in BagToSet(polls) :
          /\ poll.pc = "waking"
          /\ IF now < poll.deadline
             THEN /\ polls' = Replace(polls, poll, [poll EXCEPT !.pc = "describing"])
                  /\ UNCHANGED starting
             ELSE /\ polls' = Without(polls, poll)
                  /\ starting' = FALSE
    /\ UNCHANGED <<prog, now, ec2, lastStartRequest, modeVars, startTasks, ticks, reconciles,
                   callVars, bgVars, bucketVars, banVars, lastOp, routeVars, connVars,
                   idleVars, loginVars, friendlyVars>>

\* The instance changes while proxy.js runs.
ProxyEnv ==
    /\ InProxy
    /\ (EnvBoot \/ EnvPortOpens \/ EnvStopped \/ EnvStarted)
    /\ UNCHANGED <<prog, now, proxyVars, callVars, outsideProxy>>

\* The callback of mcServer.close(): `mcServer = null`.  It runs once the
\* server has closed, if the library calls it at all.
McCloseCallback ==
    /\ DeferredCloses
    /\ mcServer /\ mcClosing
    /\ mcServer' = FALSE
    /\ mcClosing' = FALSE
    /\ UNCHANGED <<prog, now, ec2, lastStartRequest, starting, backendHost, backendReady,
                   tcpServer, tcpClosing, mcCloseTimers, tcpCloseTimers, startTasks,
                   polls, ticks, reconciles, callVars, outsideProxy>>

\* The 2 s timer of stopMinecraftFriendlyServer():
\* `if (mcServer) { mcServer.close(); mcServer = null; }`, whichever server
\* the variable holds by then.
McCloseTimer ==
    /\ DeferredCloses
    /\ mcCloseTimers > 0
    /\ mcCloseTimers' = mcCloseTimers - 1
    /\ mcServer' = FALSE
    /\ mcClosing' = FALSE
    /\ UNCHANGED <<prog, now, ec2, lastStartRequest, starting, backendHost, backendReady,
                   tcpServer, tcpClosing, tcpCloseTimers, startTasks,
                   polls, ticks, reconciles, callVars, outsideProxy>>

\* The callback of tcpServer.close(): `tcpServer = null`, once the server has
\* closed and its connections have ended.
TcpCloseCallback ==
    /\ DeferredCloses
    /\ tcpServer /\ tcpClosing
    /\ tcpServer' = FALSE
    /\ tcpClosing' = FALSE
    /\ UNCHANGED <<prog, now, ec2, lastStartRequest, starting, backendHost, backendReady,
                   mcServer, mcClosing, mcCloseTimers, tcpCloseTimers, startTasks,
                   polls, ticks, reconciles, callVars, outsideProxy>>

\* The 2 s timer of stopTcpForwardServer()
TcpCloseTimer ==
    /\ DeferredCloses
    /\ tcpCloseTimers > 0
    /\ tcpCloseTimers' = tcpCloseTimers - 1
    /\ tcpServer' = FALSE
    /\ tcpClosing' = FALSE
    /\ UNCHANGED <<prog, now, ec2, lastStartRequest, starting, backendHost, backendReady,
                   mcServer, mcClosing, mcCloseTimers, startTasks,
                   polls, ticks, reconciles, callVars, outsideProxy>>

\* No 2 s timer is pending: the clock moves in steps far longer than 2 s.
CloseTimersDone == mcCloseTimers = 0 /\ tcpCloseTimers = 0

\* Time passes in proxy.js, by no less than the sleep of the poll loop.
StartDeltas == {START_DEBOUNCE_MS, POLL_DEADLINE_MS}
ProxyTick ==
    /\ InProxy
    /\ ticks < MaxTicks
    /\ CloseTimersDone
    /\ ticks' = ticks + 1
    /\ \E d \in StartDeltas : now' = now + d
    /\ reconciles' = reconciles + 1
    /\ polls' = BagOfAll(TimerDue, polls)
    /\ burst' = [burst EXCEPT !.open = FALSE]
    /\ UNCHANGED <<prog, ec2, lastStartRequest, starting, modeVars, startTasks,
                   calls, outsideProxy>>

(***************************************************************************)
(* proxy.js: forwarding, the shutdown timer and stopping the instance.     *)
(***************************************************************************)
SHUTDOWN_IDLE_MINUTES == 10
SHUTDOWN_IDLE_MS == SHUTDOWN_IDLE_MINUTES * 60000

Sessions == {"c1", "c2"}

\* scheduleShutdownTimer(): `if (shutdownTimer) return`, else the timer is
\* set to fire SHUTDOWN_IDLE_MINUTES from now.
ArmedAlways(timer, t) == <<t + SHUTDOWN_IDLE_MS>>
Armed(timer, t) == IF timer # << >> THEN timer ELSE <<t + SHUTDOWN_IDLE_MS>>

\* cancelShutdownTimer()
CancelledNever(timer) == timer
Cancelled(timer) == << >>

\* stopTcpForwardServer(); backendHost = null; backendReady = false;
\* startMinecraftFriendlyServer()
switchToFriendlyMode ==
    /\ stopTcpForwardServer
    /\ backendHost' = None
    /\ backendReady' = FALSE
    /\ startMinecraftFriendlyServer

\* The forwarding server accepts a client: the timer is cancelled and the
\* connection to the backend is begun.
ClientConnects(c) ==
    /\ InProxy
    /\ TcpListening
    /\ socks[c] = "none"
    /\ shutdownTimer' = Cancelled(shutdownTimer)
    /\ socks' = [socks EXCEPT ![c] = "connecting"]
    /\ UNCHANGED <<prog, now, ec2, modeVars, ticks, reconciles, lastOp, activeSockets, stopTasks,
                   stopCmds, emptySince, outsideIdle>>

\* The connection to the backend is made: the sockets are piped and the
\* client joins activeSockets.
BackendConnects(c) ==
    /\ InProxy
    /\ socks[c] = "connecting"
    /\ socks' = [socks EXCEPT ![c] = "active"]
    /\ activeSockets' = activeSockets \cup {c}
    /\ UNCHANGED <<prog, now, ec2, modeVars, ticks, reconciles, lastOp, shutdownTimer, stopTasks,
                   stopCmds, emptySince, outsideIdle>>

\* A socket of the session closes, or the connection to the backend fails:
\* cleanup runs, once for each socket as it destroys the other; the second
\* run finds what the first has left.
SessionCloses(c) ==
    /\ InProxy
    /\ socks[c] \in {"connecting", "active"}
    /\ socks' = [socks EXCEPT ![c] = "none"]
    /\ activeSockets' = activeSockets \ {c}
    /\ shutdownTimer' = IF activeSockets' = {} THEN Armed(shutdownTimer, now)
                        ELSE shutdownTimer
    /\ emptySince' = IF activeSockets # {} /\ activeSockets' = {} THEN now ELSE emptySince
    /\ UNCHANGED <<prog, now, ec2, modeVars, ticks, reconciles, lastOp, stopTasks, stopCmds,
                   outsideIdle>>

\* A call of stopInstance() at its describeInstance(), and who made it.
StopTask(by) == [pc |-> "describing", by |-> by]

\* `if (activeSockets.size === 0)` of the timer's callback
NoPlayersAlways(active) == TRUE
NoPlayers(active) == active = {}

\* The shutdown timer fires, when it is due or later: with no active socket
\* stopInstance() is called, which runs up to its describeInstance(); else
\* the shutdown is aborted.
ShutdownTimerFires ==
    /\ InProxy
    /\ shutdownTimer # << >>
    /\ now >= shutdownTimer[1]
    /\ shutdownTimer' = << >>
    /\ IF NoPlayers(activeSockets)
       THEN /\ stopTasks' = With(stopTasks, StopTask("timer"))
            /\ lastOp' = Op("idleStop", None, TRUE, now - emptySince)
       ELSE /\ lastOp' = Op("idleAbort", None, FALSE, 0)
            /\ UNCHANGED stopTasks
    /\ UNCHANGED <<prog, now, ec2, modeVars, ticks, reconciles, socks, activeSockets, stopCmds,
                   emptySince, outsideIdle>>

\* POST /stop of the admin API: stopInstance() is called and runs up to its
\* describeInstance().
AdminStop ==
    /\ InProxy
    /\ BagCardinality(stopTasks) < StopsBound
    /\ stopCmds < StopsBound
    /\ stopTasks' = With(stopTasks, StopTask("admin"))
    /\ UNCHANGED <<prog, now, ec2, modeVars, ticks, reconciles, lastOp, socks, activeSockets,
                   shutdownTimer, stopCmds, emptySince, outsideIdle>>

\* `if (state !== 'running')` of stopInstance: the stop command is not sent.
StopSkippedNever(state) == FALSE
StopSkipped(state) == state # "running"

\* describeInstance() returns to stopInstance: it throws or reports the
\* instance not running, and the finally block runs; or the stop command is
\* sent.
StopDescribed ==
    /\ InProxy
    /\ \E task \in BagToSet(stopTasks) :
          /\ task.pc = "describing"
          /\ \E threw \in BOOLEAN :
                IF threw \/ StopSkipped(ec2.state)
                THEN /\ stopTasks' = Without(stopTasks, task)
                     /\ switchToFriendlyMode
                     /\ lastOp' = Op("stopDescribed", None, FALSE, 0)
                     /\ UNCHANGED stopCmds
                ELSE /\ stopTasks' = Replace(stopTasks, task, [task EXCEPT !.pc = "sending"])
                     /\ stopCmds' = stopCmds + 1
                     /\ lastOp' = Op("stopDescribed", None, TRUE, 0)
                     /\ UNCHANGED modeVars
    /\ UNCHANGED <<prog, now, ec2, ticks, reconciles, socks, activeSockets, shutdownTimer,
                   emptySince, outsideIdle>>

\* What a StopInstancesCommand does to the instance.
AfterStopCommand(e) ==
    IF e.state \in {"running", "pending"} THEN Ec2("stopping", None, FALSE) ELSE e

\* ec2.send(new StopInstancesCommand(...)) returns to stopInstance, accepted or
\* not, and the finally block runs.
StopSent ==
    /\ InProxy
    /\ \E task \in BagToSet(stopTasks) :
          /\ task.pc = "sending"
          /\ stopTasks' = Without(stopTasks, task)
          /\ \E accepted \in BOOLEAN :
                ec2' = IF accepted THEN AfterStopCommand(ec2) ELSE ec2
          /\ switchToFriendlyMode
    /\ UNCHANGED <<prog, now, ticks, reconciles, lastOp, socks, activeSockets, shutdownTimer, stopCmds,
                   emptySince, outsideIdle>>

\* Time passes while proxy.js forwards.
IdleDeltas == {MinuteMs, (SHUTDOWN_IDLE_MINUTES - 1) * MinuteMs}
IdleTick ==
    /\ InProxy
    /\ ticks < MaxTicks
    /\ CloseTimersDone
    /\ ticks' = ticks + 1
    /\ \E d \in IdleDeltas : now' = now + d
    /\ reconciles' = reconciles + 1
    /\ UNCHANGED <<prog, ec2, modeVars, lastOp, idleVars, outsideIdle>>

\* The instance changes while proxy.js forwards.
IdleEnv ==
    /\ InProxy
    /\ (EnvBoot \/ EnvPortOpens \/ EnvStopped \/ EnvStarted)
    /\ UNCHANGED <<prog, now, modeVars, ticks, reconciles, lastOp, idleVars, outsideIdle>>

\* The 30 s check of main(), begun when the clock moved on: describeInstance()
\* returns to it.  It throws and the check ends; or the instance runs with an
\* address while the backend is not ready, and the proxy forwards; or the
\* instance does not run while the backend is ready, and the proxy goes back
\* to the friendly server.
SeesRunningAlways(threw, info) == TRUE
SeesRunning(threw, info) == ~threw /\ info.state = "running" /\ info.host # None

Reconciled ==
    /\ InProxy
    /\ reconciles > 0
    /\ reconciles' = reconciles - 1
    /\ \E threw \in BOOLEAN :
          /\ lastOp' = [NoOp EXCEPT !.kind = "reconcile", !.ok = ~threw]
          /\ IF SeesRunning(threw, ec2) /\ ~backendReady
             THEN /\ backendHost' = ec2.host
                  /\ backendReady' = TRUE
                  /\ switchToTcpForwardMode
             ELSE IF ~threw /\ ec2.state # "running" /\ backendReady
             THEN switchToFriendlyMode
             ELSE UNCHANGED modeVars
    /\ UNCHANGED <<prog, now, ec2, lastStartRequest, starting, startTasks, polls, ticks,
                   callVars, bucketVars, banVars, routeVars, bgVars, connVars, idleVars,
                   loginVars, friendlyVars>>

(***************************************************************************)
(* Login proxy: sessions and the idle check.                               *)
(***************************************************************************)
Players == {"alice", "bob"}
IDLE_CHECK_MS == 60 * 1000

\* `idleMs >= idleNeeded`
IdleLongEnough(t, since) == t - since >= SHUTDOWN_IDLE_MS

\* A player has logged in: the handler calls describeInstance().
Login(u) ==
    /\ prog = "login"
    /\ logins[u] = "none"
    /\ calls < MaxLogins
    /\ calls' = calls + 1
    /\ logins' = [logins EXCEPT ![u] = "describing"]
    /\ UNCHANGED <<prog, now, ec2, lastOp, startCmds, startCmdAt, stopCmds, emptySince, activePlayers,
                   lastNoPlayersAt, idleChecks, outsideLogin>>

\* describeInstance() returns to the login handler: it throws, or the
\* instance does not run and is started, or no host is known, or
\* mc.createClient begins to connect to the instance and the player is marked
\* active.
LoginDescribed(u) ==
    /\ prog = "login"
    /\ logins[u] = "describing"
    /\ \E threw \in BOOLEAN :
          IF threw \/ (ec2.state = "running" /\ ec2.host = None)
          THEN /\ logins' = [logins EXCEPT ![u] = "none"]
               /\ UNCHANGED <<startCmds, startCmdAt, activePlayers, lastNoPlayersAt>>
          ELSE IF ec2.state # "running"
          THEN /\ logins' = [logins EXCEPT ![u] = "starting"]
               /\ startCmds' = startCmds + 1
               /\ startCmdAt' = <<now>>
               /\ UNCHANGED <<activePlayers, lastNoPlayersAt>>
          ELSE /\ logins' = [logins EXCEPT ![u] = "connecting"]
               /\ activePlayers' = activePlayers \cup {u}
               /\ lastNoPlayersAt' = << >>
               /\ UNCHANGED <<startCmds, startCmdAt>>
    /\ UNCHANGED <<prog, calls, now, ec2, lastOp, stopCmds, emptySince, idleChecks, outsideLogin>>

\* ec2.send(new StartInstancesCommand(...)) returns to startInstance in the
\* login handler: rejected, the handler ends; accepted, startInstance polls.
LoginStartSent(u) ==
    /\ prog = "login"
    /\ logins[u] = "starting"
    /\ \E accepted \in BOOLEAN :
          /\ ec2' = IF accepted THEN AfterStartCommand(ec2) ELSE ec2
          /\ logins' = [logins EXCEPT ![u] = IF accepted THEN "polling" ELSE "none"]
    /\ UNCHANGED <<prog, calls, now, lastOp, startCmds, startCmdAt, stopCmds, emptySince, activePlayers,
                   lastNoPlayersAt, idleChecks, outsideLogin>>

\* startInstance returns to the login handler, the port open or the time
\* out: the player is told and disconnected.
LoginStartDone(u) ==
    /\ prog = "login"
    /\ logins[u] = "polling"
    /\ logins' = [logins EXCEPT ![u] = "none"]
    /\ UNCHANGED <<prog, calls, now, ec2, lastOp, startCmds, startCmdAt, stopCmds, emptySince, activePlayers,
                   lastNoPlayersAt, idleChecks, outsideLogin>>

\* The connection mc.createClient has begun to the instance is made.
DownstreamConnected(u) ==
    /\ prog = "login"
    /\ logins[u] = "connecting"
    /\ ec2.state = "running" /\ ec2.port
    /\ logins' = [logins EXCEPT ![u] = "active"]
    /\ UNCHANGED <<prog, calls, now, ec2, lastOp, startCmds, startCmdAt, stopCmds, emptySince,
                   activePlayers, lastNoPlayersAt, idleChecks, outsideLogin>>

\* The session of a player ends, or its connection to the instance fails:
\* cleanup.
LoginCleanup(u) ==
    /\ prog = "login"
    /\ logins[u] \in {"connecting", "active"}
    /\ logins' = [logins EXCEPT ![u] = "none"]
    /\ activePlayers' = activePlayers \ {u}
    /\ lastNoPlayersAt' = IF activePlayers' = {} THEN <<now>> ELSE lastNoPlayersAt
    /\ emptySince' = IF activePlayers # {} /\ activePlayers' = {} THEN now ELSE emptySince
    /\ UNCHANGED <<prog, calls, now, ec2, lastOp, startCmds, startCmdAt, stopCmds, idleChecks, outsideLogin>>

\* A minute passes and the idle check runs, up to its describeInstance().
IdleCheck ==
    /\ prog = "login"
    /\ now < MaxIdleMinutes * IDLE_CHECK_MS
    /\ now' = now + IDLE_CHECK_MS
    /\ IF activePlayers # {}
       THEN /\ lastNoPlayersAt' = << >>
            /\ UNCHANGED idleChecks
       ELSE IF lastNoPlayersAt = << >>
       THEN /\ lastNoPlayersAt' = <<now'>>
            /\ UNCHANGED idleChecks
       ELSE /\ idleChecks' = IF IdleLongEnough(now', lastNoPlayersAt[1])
                             THEN With(idleChecks, [pc |-> "describing"])
                             ELSE idleChecks
            /\ UNCHANGED lastNoPlayersAt
    /\ UNCHANGED <<prog, calls, ec2, lastOp, startCmds, startCmdAt, stopCmds, emptySince, activePlayers, logins,
                   outsideLogin>>

\* describeInstance() returns to the idle check: the instance runs and
\* stopInstance() sends the stop command, or the check ends.
IdleDescribed ==
    /\ prog = "login"
    /\ \E task \in BagToSet(idleChecks) :
          /\ task.pc = "describing"
          /\ \E threw \in BOOLEAN :
                IF threw \/ ec2.state # "running"
                THEN /\ idleChecks' = Without(idleChecks, task)
                     /\ UNCHANGED <<stopCmds, lastOp>>
                ELSE /\ idleChecks' = Replace(idleChecks, task, [pc |-> "stopping"])
                     /\ stopCmds' = stopCmds + 1
                     /\ lastOp' = Op("idleStop", None, TRUE,
                                     IF activePlayers = {} THEN now - emptySince ELSE -1)
    /\ UNCHANGED <<prog, calls, now, ec2, startCmds, startCmdAt, emptySince, activePlayers, lastNoPlayersAt,
                   logins, outsideLogin>>

\* ec2.send(new StopInstancesCommand(...)) returns to stopInstance: rejected,
\* the idle check ends in its catch; accepted, describeInstance() is called.
IdleStopSent ==
    /\ prog = "login"
    /\ \E task \in BagToSet(idleChecks) :
          /\ task.pc = "stopping"
          /\ \E accepted \in BOOLEAN :
                /\ ec2' = IF accepted THEN AfterStopCommand(ec2) ELSE ec2
                /\ idleChecks' = IF accepted
                                 THEN Replace(idleChecks, task, [pc |-> "refreshing"])
                                 ELSE Without(idleChecks, task)
    /\ UNCHANGED <<prog, calls, now, lastOp, startCmds, startCmdAt, stopCmds, emptySince, activePlayers,
                   lastNoPlayersAt, logins, outsideLogin>>

\* stopInstance returns to the idle check: lastNoPlayersAt = null.
IdleStopped ==
    /\ prog = "login"
    /\ \E task \in BagToSet(idleChecks) :
          /\ task.pc = "refreshing"
          /\ idleChecks' = Without(idleChecks, task)
    /\ lastNoPlayersAt' = << >>
    /\ UNCHANGED <<prog, calls, now, ec2, lastOp, startCmds, startCmdAt, stopCmds, emptySince, activePlayers,
                   logins, outsideLogin>>

\* The instance changes while the login proxy runs.
LoginEnv ==
    /\ prog = "login"
    /\ (EnvBoot \/ EnvPortOpens \/ EnvStopped \/ EnvStarted)
    /\ UNCHANGED <<prog, calls, now, lastOp, startCmds, startCmdAt, stopCmds, emptySince, loginVars,
                   outsideLogin>>

(***************************************************************************)
(* proxy.js: the friendly server: admission, allow-list and login.         *)
(***************************************************************************)
Uuid_ab == <<97, 98>>                \* "ab"
Uuid_a_b == <<97, 45, 98>>           \* "a-b"
Uuid_A_B == <<65, 45, 66>>           \* "A-B"
Uuid_c_d == <<99, 45, 100>>          \* "c-d"

\* The friendly server is run twice: with players on and off the whitelist
\* from one address ("friendly"), and with nobody on the whitelist and more
\* connections and time ("siege").
InFriendly == prog \in {"friendly", "siege"}
FriendlyIPs == {"10.0.0.1"}
ConnsBound == IF prog = "friendly" THEN MaxConns ELSE MaxHeld
TicksBound == IF prog = "friendly" THEN MaxFriendlyTicks ELSE MaxSiegeTicks

\* client.uuid of the players that log in, the uuids the admin adds and
\* removes, and whitelist.json as loadWhitelist() finds it.
LoginUuids == {Uuid_A_B, Uuid_c_d}
AdminUuids == {Uuid_ab, Uuid_A_B}
Whitelists == {{}, {Uuid_ab}}

\* (client.uuid || '').replace(/-/g,'').toLowerCase()
StripDashes(u) == SelectSeq(u, LAMBDA c : c # 45)
loginUuid(u) == LowerCase(StripDashes(u))

isWhitelistedAlways(set, uuid) == TRUE
isWhitelisted(set, uuid) == LowerCase(uuid) \in set
addWhitelist(set, uuid) == set \cup {LowerCase(uuid)}
removeWhitelist(set, uuid) == set \ {LowerCase(uuid)}

\* mcServer.on('connection'): a banned address and an address without a token
\* have their socket destroyed; else the connection goes on to log in.
FriendlyConnection(ip) ==
    /\ InFriendly
    /\ McListening
    /\ LET banned == isBannedResult(BAN_MAP, ip, now)
           admitted == ~banned /\ consumeTokenOk(ipBuckets, ip, now)
       IN  /\ admitted => fconns[ip] < ConnsBound
           /\ BAN_MAP' = isBannedMap(BAN_MAP, ip, now)
           /\ ipBuckets' = IF banned THEN ipBuckets ELSE consumeTokenMap(ipBuckets, ip, now)
           /\ fconns' = IF admitted THEN [fconns EXCEPT ![ip] = @ + 1] ELSE fconns
           /\ lastOp' = Op("connection", ip, admitted,
                           IF banned THEN "banned"
                           ELSE IF admitted THEN "admitted" ELSE "limited")
    /\ UNCHANGED <<prog, now, failCounts, whitelistSet, ticks, callVars, lastStartRequest,
                   startTasks, outsideFriendly>>

\* mcServer.on('login'): a player that is not whitelisted has a failure
\* recorded and is told so; a whitelisted player has startInstance() called,
\* which runs up to its first await, and is told to reconnect.
FriendlyLogin(ip, uuid) ==
    /\ InFriendly
    /\ McListening
    /\ fconns[ip] > 0
    /\ fconns' = [fconns EXCEPT ![ip] = @ - 1]
    /\ IF ~isWhitelisted(whitelistSet, loginUuid(uuid))
       THEN /\ recordFail(ip)
            /\ lastOp' = Op("login", <<ip, uuid>>, FALSE, "not authorized")
            /\ UNCHANGED <<callVars, lastStartRequest, startTasks>>
       ELSE /\ calls < MaxCalls
            /\ startInstanceCall
            /\ lastOp' = Op("login", <<ip, uuid>>, TRUE, "starting")
            /\ UNCHANGED banVars
    /\ UNCHANGED <<prog, now, bucketVars, whitelistSet, ticks, outsideFriendly>>

\* A connection the friendly server has admitted ends before it logs in.
FriendlyClose(ip) ==
    /\ InFriendly
    /\ fconns[ip] > 0
    /\ fconns' = [fconns EXCEPT ![ip] = @ - 1]
    /\ UNCHANGED <<prog, now, bucketVars, banVars, lastOp, whitelistSet, ticks, callVars,
                   lastStartRequest, startTasks, outsideFriendly>>

\* POST /whitelist and DELETE /whitelist/:uuid of the admin API.
AdminAdd(uuid) ==
    /\ prog = "friendly"
    /\ whitelistSet' = addWhitelist(whitelistSet, uuid)
    /\ UNCHANGED <<prog, now, bucketVars, banVars, lastOp, fconns, ticks, callVars,
                   lastStartRequest, startTasks, outsideFriendly>>

AdminRemove(uuid) ==
    /\ prog = "friendly"
    /\ whitelistSet' = removeWhitelist(whitelistSet, uuid)
    /\ UNCHANGED <<prog, now, bucketVars, banVars, lastOp, fconns, ticks, callVars,
                   lastStartRequest, startTasks, outsideFriendly>>

\* Time passes while the friendly server runs.
FriendlyDeltas == {3 * TOKEN_REFILL_INTERVAL_MS, BAN_DURATION_MS + MinuteMs}
FriendlyTick ==
    /\ InFriendly
    /\ ticks < TicksBound
    /\ ticks' = ticks + 1
    /\ \E d \in FriendlyDeltas : now' = now + d
    /\ lastOp' = Op("tick", None, TRUE, 0)
    /\ UNCHANGED <<prog, bucketVars, banVars, friendlyVars, callVars, lastStartRequest,
                   startTasks, outsideFriendly>>

(***************************************************************************)
(* The clients' side: how a client encodes the handshake it sends.         *)
(***************************************************************************)
RECURSIVE writeVarInt(_)
writeVarInt(v) ==
    IF v < 128 THEN <<v>> ELSE <<(v % 128) + 128>> \o writeVarInt(v \div 128)

HandshakeBody(pv, host, port, next) ==
    <<0>> \o writeVarInt(pv) \o writeVarInt(Len(host)) \o host
          \o <<port \div 256, port % 256>> \o writeVarInt(next)
Handshake(pv, host, port, next) ==
    writeVarInt(Len(HandshakeBody(pv, host, port, next))) \o HandshakeBody(pv, host, port, next)

(***************************************************************************)
(* Initial states and specifications.                                      *)
(***************************************************************************)
InitElsewhere ==
    /\ ipBuckets = EmptyMap
    /\ failCounts = EmptyMap
    /\ BAN_MAP = EmptyMap
    /\ lastOp = NoOp
    /\ lookup = << >>
    /\ startInProgress = FALSE
    /\ bg = BgIdle
    /\ sent = 0
    /\ buffer = << >>
    /\ routed = FALSE
    /\ listening = TRUE
    /\ awaiting = 0
    /\ clientSock = "open"
    /\ backends = << >>
    /\ decisions = << >>
    /\ startTasks = EmptyBag
    /\ polls = EmptyBag
    /\ ticks = 0
    /\ socks = [c \in Sessions |-> "none"]
    /\ activeSockets = {}
    /\ shutdownTimer = << >>
    /\ stopTasks = EmptyBag
    /\ stopCmds = 0
    /\ activePlayers = {}
    /\ lastNoPlayersAt = << >>
    /\ logins = [u \in Players |-> "none"]
    /\ idleChecks = EmptyBag
    /\ reconciles = 0
    /\ fconns = [ip \in IPs |-> 0]
    /\ whitelistSet \in IF prog = "friendly" THEN Whitelists ELSE {{}}

\* The instance stopped and its control as the programs construct it;
\* proxy.js: main() has called switchToFriendlyMode().
InitStopped ==
    /\ ec2 = Ec2Stopped
    /\ startCmds = 0
    /\ startCmdAt = << >>
    /\ lastStartRequest = 0
    /\ starting = FALSE
    /\ backendHost = None
    /\ backendReady = FALSE
    /\ mcServer = TRUE
    /\ tcpServer = FALSE
    /\ mcClosing = FALSE
    /\ tcpClosing = FALSE
    /\ mcCloseTimers = 0
    /\ tcpCloseTimers = 0
    /\ calls = 0
    /\ burst = NoBurst
    /\ emptySince = 0

InitCommon == InitElsewhere /\ InitStopped

\* proxy.js as its first startInstance() call leaves it once the probe of
\* pollForIpAndReady has succeeded: the instance runs, the proxy forwards.
InitForwarding ==
    /\ ec2 = Ec2("running", InstanceHost, TRUE)
    /\ startCmds = 1
    /\ startCmdAt = <<now>>
    /\ lastStartRequest = now
    /\ starting = FALSE
    /\ backendHost = InstanceHost
    /\ backendReady = TRUE
    /\ mcServer = FALSE
    /\ tcpServer = TRUE
    /\ mcClosing = FALSE
    /\ tcpClosing = FALSE
    /\ mcCloseTimers = 0
    /\ tcpCloseTimers = 0
    /\ calls = 1
    /\ burst = [open |-> TRUE, calls |-> 1, pending |-> 0, cmds |-> 1, polls |-> 1,
                fresh |-> TRUE, clean |-> TRUE]
    /\ emptySince = 0

InitBucket == prog = "bucket" /\ now = 0 /\ InitCommon /\ ROUTES = << >> /\ stream = << >>
NextBucket == BucketTick \/ \E ip \in IPs : ConsumeToken(ip)
SpecBucket == InitBucket /\ [][NextBucket]_vars

InitBan == prog = "ban" /\ now = 0 /\ InitCommon /\ ROUTES = << >> /\ stream = << >>
NextBan == BanTick \/ (\E ip \in IPs : RecordFail(ip)) \/ (\E ip \in IPs : IsBanned(ip))
SpecBan == InitBan /\ [][NextBan]_vars

\* proxy.js in friendly mode: connections, logins, the admin's changes of the
\* whitelist.  What a call of startInstance() does after its first await is
\* followed in SpecStart.
InitFriendly ==
    prog = "friendly" /\ now = START_DEBOUNCE_MS /\ InitCommon /\ ROUTES = << >>
                      /\ stream = << >>
NextFriendly ==
    \/ \E ip \in FriendlyIPs : FriendlyConnection(ip)
    \/ \E ip \in FriendlyIPs : \E uuid \in LoginUuids : FriendlyLogin(ip, uuid)
    \/ \E ip \in FriendlyIPs : FriendlyClose(ip)
    \/ \E uuid \in AdminUuids : AdminAdd(uuid)
    \/ \E uuid \in AdminUuids : AdminRemove(uuid)
    \/ FriendlyTick
SpecFriendly == InitFriendly /\ [][NextFriendly]_vars

\* proxy.js in friendly mode with an empty whitelist: every login fails.
InitSiege ==
    prog = "siege" /\ now = START_DEBOUNCE_MS /\ InitCommon /\ ROUTES = << >>
                   /\ stream = << >>
NextSiege ==
    \/ \E ip \in FriendlyIPs : FriendlyConnection(ip)
    \/ \E ip \in FriendlyIPs : \E uuid \in {Uuid_c_d} : FriendlyLogin(ip, uuid)
    \/ \E ip \in FriendlyIPs : FriendlyClose(ip)
    \/ FriendlyTick
SpecSiege == InitSiege /\ [][NextSiege]_vars

\* The router's table: loaded at start-up, reloaded on SIGHUP, looked up.
InitRoute == prog = "route" /\ now = 0 /\ InitCommon /\ ROUTES \in Tables /\ stream = << >>
NextRoute == LoadRoutes \/ \E host \in Hosts : FindRoute(host)
SpecRoute == InitRoute /\ [][NextRoute]_vars

\* The router serving one client: the client's stream is a handshake for one
\* of the hosts, followed or not by the next packet.
Str_A_x_com == <<65, 46, 120, 46, 99, 111, 109>>                    \* "A.x.com"
Str_b_x_com_dot == <<98, 46, 120, 46, 99, 111, 109, 46>>            \* "b.x.com."
Str_www_x_com_port == <<119, 119, 119, 46, 120, 46, 99, 111, 109, 58, 50, 53>>  \* "www.x.com:25"
StatusRequest == <<1, 0>>
\* The first byte of the next packet, the rest not sent yet.
StatusRequestStart == <<1>>
OversizeVarInt == <<255, 255, 255, 255, 255, 1>>
ValidStreams ==
    { Handshake(763, Str_A_x_com, 25565, 2) \o StatusRequest,
      Handshake(47, Str_b_x_com_dot, 25565, 1),
      Handshake(47, Str_www_x_com_port, 25565, 2) \o StatusRequest,
      Handshake(763, Str_y_com, 25565, 2),
      Handshake(47, Str_com, 25565, 2) \o StatusRequestStart }
\* A length field of six bytes followed by more data, and a complete packet
\* whose protocol version field has six bytes.
OversizeThenMore == OversizeVarInt \o StatusRequest
OversizeField == <<7, 0, 255, 255, 255, 255, 255, 1>> \o StatusRequest
ClientStreams == ValidStreams \cup {OversizeVarInt, OversizeThenMore, OversizeField}
RouterTables ==
    { << [key |-> Str_a_x_com, val |-> L1], [key |-> Str_star_x_com, val |-> L2],
         [key |-> Str_x_com, val |-> L3], [key |-> Str_com, val |-> E1] >>,
      << [key |-> Str_b_x_com, val |-> E1], [key |-> Str_y_com, val |-> U1] >> }

InitRouter ==
    /\ prog = "router"
    /\ now = 0
    /\ InitCommon
    /\ ROUTES \in RouterTables
    /\ stream \in ClientStreams
NextRouter ==
    \/ \E k \in 1..24 : ClientData(k)
    \/ ClientDescribed
    \/ \E i \in 1..8 : BackendConnected(i)
    \/ \E i \in 1..8 : BackendClosed(i)
    \/ ClientClosed
    \/ BgStartSent \/ BgWake \/ BgDescribed \/ BgProbed
    \/ RouterEnv
SpecRouter == InitRouter /\ [][NextRouter]_vars

\* Ensure-running calls: the router's startInstanceBackground with its
\* callers, and proxy.js from its start in friendly mode.  The clock of
\* proxy.js starts anywhere at least the debounce window after the epoch.
InitStart ==
    /\ prog \in {"routerStart", "proxy"}
    /\ now = START_DEBOUNCE_MS
    /\ InitCommon
    /\ ROUTES = << >>
    /\ stream = << >>
NextStart ==
    \/ RouterEnsure
    \/ BgStartSent \/ BgWake \/ BgDescribed \/ BgProbed
    \/ RouterEnv
    \/ StartInstance
    \/ StartDescribed \/ StartSent
    \/ PollDescribed \/ PollProbed \/ PollWake
    \/ ProxyEnv
    \/ ProxyTick
    \/ Reconciled
SpecStart == InitStart /\ [][NextStart]_vars

\* The same, with what the event loop guarantees: a pending provider call or
\* probe returns, a timer fires, and the clock moves on while it may.
FairStart ==
    /\ WF_vars(BgStartSent) /\ WF_vars(BgWake) /\ WF_vars(BgDescribed) /\ WF_vars(BgProbed)
    /\ WF_vars(StartDescribed) /\ WF_vars(StartSent)
    /\ WF_vars(PollDescribed) /\ WF_vars(PollProbed) /\ WF_vars(PollWake)
    /\ WF_vars(ProxyTick)
    /\ WF_vars(Reconciled)
SpecStartFair == InitStart /\ [][NextStart]_vars /\ FairStart

\* The idle shutdown: proxy.js forwarding, where sessions come and go and the
\* shutdown timer runs, and the login proxy from its start.
InitIdle ==
    /\ prog \in {"proxy", "login"}
    /\ InitElsewhere
    /\ IF prog = "proxy"
       THEN now = START_DEBOUNCE_MS /\ InitForwarding
       ELSE now = 0 /\ InitStopped
    /\ ROUTES = << >>
    /\ stream = << >>
NextIdle ==
    \/ \E c \in Sessions : ClientConnects(c)
    \/ \E c \in Sessions : BackendConnects(c)
    \/ \E c \in Sessions : SessionCloses(c)
    \/ ShutdownTimerFires
    \/ AdminStop
    \/ StopDescribed \/ StopSent
    \/ IdleTick
    \/ Reconciled
    \/ IdleEnv
    \/ \E u \in Players : Login(u)
    \/ \E u \in Players : LoginDescribed(u)
    \/ \E u \in Players : LoginStartSent(u)
    \/ \E u \in Players : LoginStartDone(u)
    \/ \E u \in Players : DownstreamConnected(u)
    \/ \E u \in Players : LoginCleanup(u)
    \/ IdleCheck
    \/ IdleDescribed \/ IdleStopSent \/ IdleStopped
    \/ LoginEnv
SpecIdle == InitIdle /\ [][NextIdle]_vars

\* The serving mode: proxy.js from its start in friendly mode, with the
\* starts, the polls, stop() and the 30 s check that switch the mode, and
\* the close callbacks and 2 s timers that the switches leave behind.
InitMode ==
    /\ prog = "mode"
    /\ now = START_DEBOUNCE_MS
    /\ InitCommon
    /\ ROUTES = << >>
    /\ stream = << >>
NextMode ==
    \/ StartInstance
    \/ StartDescribed \/ StartSent
    \/ PollDescribed \/ PollProbed \/ PollWake
    \/ AdminStop
    \/ StopDescribed \/ StopSent
    \/ Reconciled
    \/ McCloseCallback \/ McCloseTimer \/ TcpCloseCallback \/ TcpCloseTimer
    \/ ProxyEnv
    \/ ProxyTick
SpecMode == InitMode /\ [][NextMode]_vars

\* The same, with what the event loop guarantees: a timer that is due fires,
\* the clock moves on while it may, and a pending provider call returns.
FairIdle ==
    /\ WF_vars(IdleTick)
    /\ WF_vars(ShutdownTimerFires)
    /\ WF_vars(StopDescribed)
    /\ WF_vars(StopSent)
    /\ WF_vars(Reconciled)
    /\ WF_vars(IdleCheck)
    /\ WF_vars(IdleDescribed)
SpecIdleFair == InitIdle /\ [][NextIdle]_vars /\ FairIdle

(***************************************************************************)
(* Claims about the rate limiter.                                          *)
(***************************************************************************)

\* C3: after any sequence of consumeToken calls at non-decreasing times every
\* rate bucket holds between 0 and MAX_TOKENS tokens.
C3_TokensInRange ==
    \A ip \in DOMAIN ipBuckets :
        /\ ipBuckets[ip].tokens >= 0
        /\ ipBuckets[ip].tokens <= MAX_TOKENS

\* C3 witness: one bucket was due more tokens than the cap (a refill over
\* several intervals) and was consumed from, another was created lazily and
\* emptied.
C3_Witness ==
    \E ip \in DOMAIN ipBuckets, other \in DOMAIN ipBuckets :
        /\ lastOp.kind = "consumeToken" /\ lastOp.ip = ip /\ lastOp.ok
        /\ lastOp.aux >= MAX_TOKENS + 2
        /\ ipBuckets[ip].tokens = MAX_TOKENS - 1
        /\ other # ip
        /\ ipBuckets[other].tokens = 0

\* The token-bucket step of the specification: whole elapsed intervals, capped
\* refill, last-refill advanced by whole intervals, one token taken if any.
RefPre(ip) ==
    IF ip \in DOMAIN ipBuckets THEN ipBuckets[ip]
    ELSE [tokens |-> START_ALLOWED_TOKENS, lastRefill |-> now]
RefSteps(ip) == (now - RefPre(ip).lastRefill) \div TOKEN_REFILL_INTERVAL_MS
RefTokens(ip) == Min(MAX_TOKENS, RefPre(ip).tokens + RefSteps(ip) * TOKENS_PER_REFILL)
RefLastRefill(ip) == RefPre(ip).lastRefill + RefSteps(ip) * TOKEN_REFILL_INTERVAL_MS

\* C4: every consumeToken(ip) call is the reference token-bucket step: the
\* refill adds steps*R capped at MAX, lastRefill advances by steps*T (the
\* remainder is carried), the call succeeds and takes exactly one token iff the
\* refilled count is >= 1, and a failing call leaves the count at 0.
C4_ConsumeIsReferenceStep ==
    [][\A ip \in IPs :
          Called("consumeToken", ip) =>
              /\ lastOp'.ok = (RefTokens(ip) >= 1)
              /\ ipBuckets'[ip].lastRefill = RefLastRefill(ip)
              /\ lastOp'.ok => ipBuckets'[ip].tokens = RefTokens(ip) - 1
              /\ ~lastOp'.ok => ipBuckets'[ip].tokens = 0 /\ RefTokens(ip) = 0
              /\ \A other \in DOMAIN ipBuckets \ {ip} :
                    ipBuckets'[other] = ipBuckets[other]]_vars

\* C4 witness: a bucket due one token more than the cap (as 1 token and 45 s
\* idle) was refilled to 3, not 4, one token was taken, and the 5 s left of a
\* partial interval were carried, not reset.
C4_Witness ==
    \E ip \in DOMAIN ipBuckets :
        /\ lastOp.kind = "consumeToken" /\ lastOp.ip = ip /\ lastOp.ok
        /\ lastOp.aux = MAX_TOKENS + 1
        /\ ipBuckets[ip].tokens = MAX_TOKENS - 1
        /\ now - ipBuckets[ip].lastRefill = 5 * 1000

(***************************************************************************)
(* Claims about failure counting and bans.                                 *)
(***************************************************************************)

\* C5: the failure that reaches FAIL_MAX inside the window sets ban-until to
\* now + BAN_DURATION_MS and drops the failure counter; isBanned answers true
\* at every time up to ban-until and leaves the record, and at the first check
\* after ban-until answers false and removes the record.
C5_BanSetAndExpires ==
    [][\A ip \in IPs :
          /\ ( /\ Called("recordFail", ip)
               /\ ip \in DOMAIN failCounts
               /\ failCounts[ip].count = FAIL_MAX - 1
               /\ now - failCounts[ip].firstFailTs <= FAIL_WINDOW_MS )
             => /\ ip \in DOMAIN BAN_MAP'
                /\ BAN_MAP'[ip] = now + BAN_DURATION_MS
                /\ ip \notin DOMAIN failCounts'
          /\ ( Called("isBanned", ip) /\ ip \in DOMAIN BAN_MAP /\ now <= BAN_MAP[ip] )
             => /\ lastOp'.ok
                /\ BAN_MAP' = BAN_MAP
          /\ ( Called("isBanned", ip) /\ ip \in DOMAIN BAN_MAP /\ now > BAN_MAP[ip] )
             => /\ ~lastOp'.ok
                /\ ip \notin DOMAIN BAN_MAP'
          /\ ( Called("isBanned", ip) /\ ip \notin DOMAIN BAN_MAP )
             => /\ ~lastOp'.ok
                /\ BAN_MAP' = BAN_MAP]_vars

\* C5 witness: 31 minutes after the fifth failure the check found the ban
\* record, answered not-banned and removed it.
C5_Witness ==
    \E ip \in IPs :
        /\ lastOp.kind = "isBanned" /\ lastOp.ip = ip
        /\ lastOp.aux = 1
        /\ ~lastOp.ok
        /\ ip \notin DOMAIN BAN_MAP
        /\ now = 31 * MinuteMs

\* C6: a failure inside the window increments the counter; a failure after the
\* window has elapsed restarts it at count 1 with window-start = now and bans
\* nobody, whatever the count was before.
C6_WindowRestart ==
    [][\A ip \in IPs :
          /\ ( /\ Called("recordFail", ip)
               /\ ip \in DOMAIN failCounts
               /\ now - failCounts[ip].firstFailTs <= FAIL_WINDOW_MS
               /\ failCounts[ip].count + 1 < FAIL_MAX )
             => /\ failCounts' = [failCounts EXCEPT ![ip].count = @ + 1]
                /\ BAN_MAP' = BAN_MAP
          /\ ( /\ Called("recordFail", ip)
               /\ ip \in DOMAIN failCounts
               /\ now - failCounts[ip].firstFailTs > FAIL_WINDOW_MS )
             => /\ ip \in DOMAIN failCounts'
                /\ failCounts'[ip] = [count |-> 1, firstFailTs |-> now]
                /\ BAN_MAP' = BAN_MAP
          /\ ( Called("recordFail", ip) /\ ip \notin DOMAIN failCounts )
             => /\ ip \in DOMAIN failCounts'
                /\ failCounts'[ip] = [count |-> 1, firstFailTs |-> now]
                /\ BAN_MAP' = BAN_MAP]_vars

\* C6 witness: four failures, an 11-minute gap, one more failure: the counter
\* is 1, the window starts now, and the address is not banned.
C6_Witness ==
    \E ip \in IPs :
        /\ lastOp.kind = "recordFail" /\ lastOp.ip = ip
        /\ lastOp.aux = FAIL_MAX - 1
        /\ ~lastOp.ok
        /\ now = 11 * MinuteMs
        /\ failCounts[ip] = [count |-> 1, firstFailTs |-> now]
        /\ ip \notin DOMAIN BAN_MAP

(***************************************************************************)
(* Claims about the route table.                                           *)
(***************************************************************************)

\* The entries of ROUTES that match a host in each tier, as the specification
\* words them.
ExactEntries(host) == {i \in 1..Len(ROUTES) : ROUTES[i].key = host}
WildcardEntries(host) ==
    {i \in 1..Len(ROUTES) :
        /\ Len(ROUTES[i].key) >= 2
        /\ SubSeq(ROUTES[i].key, 1, 2) = <<42, 46>>
        /\ EndsWith(host, <<46>> \o SubSeq(ROUTES[i].key, 3, Len(ROUTES[i].key)))}
BareEntries(host) ==
    {i \in 1..Len(ROUTES) :
        /\ \A k \in 1..Len(ROUTES[i].key) : ROUTES[i].key[k] # 42
        /\ \E k \in 1..Len(ROUTES[i].key) : ROUTES[i].key[k] = 46
        /\ (host = ROUTES[i].key \/ EndsWith(host, <<46>> \o ROUTES[i].key))}
ResultIn(entries, result) == \E i \in entries : result = ROUTES[i].val

\* C10: findRouteFor applies the precedence exact > wildcard > bare-suffix, and
\* answers "no route" when no entry matches in any tier.
C10_RoutePrecedence ==
    lookup # << >> =>
        LET host == lookup[1]
            result == lookup[2]
        IN  IF ExactEntries(host) # {} THEN ResultIn(ExactEntries(host), result)
            ELSE IF WildcardEntries(host) # {} THEN ResultIn(WildcardEntries(host), result)
            ELSE IF BareEntries(host) # {} THEN ResultIn(BareEntries(host), result)
            ELSE result = null

\* The same precedence for the hosts that name no member of Object.prototype.
C10_PrecedenceOwnKeys ==
    (lookup # << >> /\ \A e \in ObjectPrototype : e.key # lookup[1]) => C10_RoutePrecedence

\* The example of the specification: with {a.x.com: L1, *.x.com: L2, x.com: L3}
\* a.x.com -> L1, b.x.com -> L2, x.com -> L3, y.com -> no route.
C10_Example ==
    LET t == << [key |-> Str_a_x_com, val |-> L1],
                [key |-> Str_star_x_com, val |-> L2],
                [key |-> Str_x_com, val |-> L3] >>
    IN  /\ findRouteFor(t, Str_a_x_com) = L1
        /\ findRouteFor(t, Str_b_x_com) = L2
        /\ findRouteFor(t, Str_x_com) = L3
        /\ findRouteFor(t, Str_y_com) = null

(***************************************************************************)
(* Claims about the router's connection handler.                           *)
(***************************************************************************)
\* The number of bytes of the client's stream up to the end of its handshake
\* packet: the length prefix and the length it announces.
HandshakeEnd(s) == readVarInt(s, 0).size + readVarInt(s, 0).value
HandshakeBytes(s) == SubSeq(s, 1, HandshakeEnd(s))

\* C8: whatever backend a connection is routed to, the first bytes written to
\* it are the client's bytes through the end of the handshake packet, as the
\* client sent them, and nothing is written before them.
C8_BackendGetsHandshakeFirst ==
    prog = "router" /\ stream \in ValidStreams =>
        \A i \in 1..Len(backends) :
            backends[i].written # << >> =>
                /\ Len(backends[i].written) >= HandshakeEnd(stream)
                /\ SubSeq(backends[i].written, 1, HandshakeEnd(stream)) = HandshakeBytes(stream)

\* A client that asked for "A.x.com" is connected to the backend of a.x.com,
\* which has been written the handshake and then the next packet.
C8_Witness ==
    /\ prog = "router"
    /\ stream = Handshake(763, Str_A_x_com, 25565, 2) \o StatusRequest
    /\ Len(backends) = 1
    /\ backends[1].st = "connected"
    /\ backends[1].target = "local:25566"
    /\ backends[1].first = HandshakeBytes(stream)
    /\ backends[1].written = stream
    /\ Len(decisions) = 1 /\ decisions[1].raw = Str_A_x_com

\* C9: however the bytes of a valid handshake are split into data events, the
\* router decodes the host the unsplit handshake decodes to and picks the
\* route of that host; it has decided once the last byte of the handshake
\* has arrived, and until then it decides nothing and reports no error.
C9_FragmentsDecodeAlike ==
    prog = "router" /\ stream \in ValidStreams =>
        LET unsplit == parseHandshake(HandshakeBytes(stream))
        IN  /\ unsplit.st = "ok"
            /\ \A i \in 1..Len(decisions) :
                  /\ decisions[i].raw = unsplit.host
                  /\ decisions[i].host = normalizeHost(unsplit.host)
                  /\ decisions[i].route = findRouteFor(ROUTES, normalizeHost(unsplit.host))
            /\ sent >= HandshakeEnd(stream) => decisions # << >>
            /\ sent < HandshakeEnd(stream) =>
                  /\ decisions = << >>
                  /\ backends = << >>
                  /\ awaiting = 0
                  /\ ~routed
                  /\ clientSock # "ended"

\* The handshake for "www.x.com:25" has arrived in fragments, its last byte
\* alone, and was decoded to x.com and its route.
C9_Witness ==
    /\ prog = "router"
    /\ stream = Handshake(47, Str_www_x_com_port, 25565, 2) \o StatusRequest
    /\ sent = HandshakeEnd(stream)
    /\ Len(buffer) = sent
    /\ Len(decisions) = 1
    /\ decisions[1].chunk = 1
    /\ decisions[1].raw = Str_www_x_com_port
    /\ decisions[1].host = Str_x_com
    /\ decisions[1].route \in {L3, null}

(***************************************************************************)
(* Claims about starting the instance.                                     *)
(***************************************************************************)
\* The poll loops in flight: the loop of the router's startInstanceBackground
\* once entered, and the pollForIpAndReady calls of proxy.js.
RouterPollLoops == IF bg.pc \in {"sleeping", "describing", "probing"} THEN 1 ELSE 0
PollLoops == RouterPollLoops + BagCardinality(polls)

C2_OnePollInFlight == PollLoops <= 1

\* The router's part of C2.
C2_RouterOnePoll == prog = "routerStart" => PollLoops <= 1

(***************************************************************************)
(* Claims about the idle shutdown.                                         *)
(***************************************************************************)
\* C7: the idle scheduler calls for a stop only when the set of active
\* sessions has been empty, without a break, for the configured idle time: a
\* session that became active in between puts the stop off until a full idle
\* time has passed anew.
C7_StopOnlyAfterFullIdle ==
    [][Called("idleStop", None) => lastOp'.aux >= SHUTDOWN_IDLE_MS]_vars

\* The part of C7 that holds: the timer calls for a stop only while no session
\* is active.
C7_StopOnlyWhileEmpty ==
    [][prog = "proxy" /\ Called("idleStop", None) =>
          activeSockets = {} /\ lastOp'.aux >= 0]_vars

\* C7 for the login proxy alone.
C7_LoginStopOnlyAfterFullIdle ==
    [][prog = "login" /\ Called("idleStop", None) => lastOp'.aux >= SHUTDOWN_IDLE_MS]_vars



(***************************************************************************)
(* C11: proxy.js marks the backend ready (backendReady = true, the address *)
(* in backendHost) only in a step in which a TCP connect probe of          *)
(* pollForIpAndReady succeeds, the provider having reported the instance   *)
(* running with an address; no other step, the 30 s check of main()        *)
(* included, sets backendReady.                                            *)
(***************************************************************************)
ProbeSucceeds ==
    \E poll \in BagToSet(polls) :
        /\ poll.pc = "probing"
        /\ polls' = Without(polls, poll)
        /\ ec2.state = "running" /\ ec2.host # None /\ ec2.port
        /\ backendHost' = ec2.host

C11_ReadyOnlyAfterProbe ==
    [][prog = "proxy" /\ ~backendReady /\ backendReady' => ProbeSucceeds]_vars

\* C11 for the steps of pollForIpAndReady alone.
C11_PollReadyOnlyAfterProbe ==
    [][prog = "proxy" /\ ~backendReady /\ backendReady' /\ reconciles' = reconciles
          => ProbeSucceeds]_vars


(***************************************************************************)
(* C12: a login whose identity is not in the allow-list records exactly    *)
(* one failure for its source address, is answered with the denial         *)
(* message, and causes no start command and no readiness poll;             *)
(* startInstance is reached from a login only when the identity is in the  *)
(* allow-list; and the membership check leaves the allow-list as it was.   *)
(* An identity is in the allow-list when an entry names the same uuid,     *)
(* whatever its case and dashes.                                           *)
(***************************************************************************)
SameIdentity(entry, uuid) == loginUuid(entry) = loginUuid(uuid)
InAllowList(uuid) == \E entry \in whitelistSet : SameIdentity(entry, uuid)

\* The failures counted for ip in the current window.
FailsInWindow(ip) ==
    IF ip \in DOMAIN failCounts /\ now - failCounts[ip].firstFailTs <= FAIL_WINDOW_MS
    THEN failCounts[ip].count
    ELSE 0

\* The step counts one more failure for ip: the counter goes up by one, or
\* the failure is the last of FAIL_MAX and becomes a ban.
OneFailureRecorded(ip) ==
    IF FailsInWindow(ip) + 1 >= FAIL_MAX
    THEN /\ ip \notin DOMAIN failCounts'
         /\ ip \in DOMAIN BAN_MAP' /\ BAN_MAP'[ip] = now + BAN_DURATION_MS
    ELSE /\ ip \in DOMAIN failCounts'
         /\ failCounts'[ip].count = FailsInWindow(ip) + 1
         /\ BAN_MAP' = BAN_MAP

C12_DeniedLoginStartsNothing ==
    [][\A ip \in FriendlyIPs : \A uuid \in LoginUuids :
          Called("login", <<ip, uuid>>) =>
              /\ whitelistSet' = whitelistSet
              /\ ~InAllowList(uuid) =>
                    /\ OneFailureRecorded(ip)
                    /\ lastOp'.aux = "not authorized"
                    /\ UNCHANGED <<calls, lastStartRequest, startTasks, polls, startCmds>>
              /\ (calls' # calls \/ startTasks' # startTasks) => InAllowList(uuid)]_vars

\* C12 witness: with a player on the whitelist whose call of startInstance()
\* stands at its await, the login of another uuid has been denied and is the
\* first failure of its address.
C12_Witness ==
    /\ lastOp.kind = "login" /\ lastOp.ip = <<"10.0.0.1", Uuid_c_d>>
    /\ lastOp.aux = "not authorized"
    /\ whitelistSet = {Uuid_ab}
    /\ startTasks # EmptyBag
    /\ "10.0.0.1" \in DOMAIN failCounts /\ failCounts["10.0.0.1"].count = 1


(***************************************************************************)
(* C13: once the ban-until of an address is set, no operation changes it   *)
(* until the ban has expired or a fresh failure cycle occurs.              *)
(* C13_BanUntilFixedWhileInForce is the claim as it reads: while the ban   *)
(* is in force, connection attempts, rate-limit checks, ban checks and     *)
(* failures recorded for the address leave ban-until unchanged.            *)
(***************************************************************************)
BanInForce(ip) == ip \in DOMAIN BAN_MAP /\ now <= BAN_MAP[ip]
BanUntilChanges(ip) ==
    ip \in DOMAIN BAN_MAP /\ (ip \notin DOMAIN BAN_MAP' \/ BAN_MAP'[ip] # BAN_MAP[ip])

C13_BanUntilFixedWhileInForce ==
    [][\A ip \in FriendlyIPs : BanInForce(ip) => ~BanUntilChanges(ip)]_vars

\* The step records the last failure of a cycle of FAIL_MAX failures that
\* were all recorded after the ban was set.
FreshCycleCompletes(ip) ==
    /\ \E uuid \in LoginUuids : Called("login", <<ip, uuid>>)
    /\ FailsInWindow(ip) = FAIL_MAX - 1
    /\ failCounts[ip].firstFailTs >= BAN_MAP[ip] - BAN_DURATION_MS

\* C13 as the code keeps it: ban-until changes only when a connection attempt
\* finds the ban expired and removes it, or when a fresh cycle of FAIL_MAX
\* failures completes, which sets it anew and may happen while the ban is in
\* force; connection attempts with their ban and rate-limit checks, and
\* failures short of a fresh cycle, leave it unchanged.
C13_BanUntilFrame ==
    [][\A ip \in FriendlyIPs :
          /\ BanUntilChanges(ip) =>
                \/ /\ now > BAN_MAP[ip]
                   /\ Called("connection", ip)
                   /\ ip \notin DOMAIN BAN_MAP'
                \/ /\ FreshCycleCompletes(ip)
                   /\ ip \in DOMAIN BAN_MAP' /\ BAN_MAP'[ip] = now + BAN_DURATION_MS
          /\ BanInForce(ip) /\ Called("connection", ip) =>
                BAN_MAP' = BAN_MAP /\ ~lastOp'.ok /\ ipBuckets' = ipBuckets
          /\ ( /\ BanInForce(ip)
               /\ \E uuid \in LoginUuids : Called("login", <<ip, uuid>>)
               /\ FailsInWindow(ip) + 1 < FAIL_MAX )
             => BAN_MAP' = BAN_MAP]_vars

\* C13 witness: while a ban set earlier is in force, four failures have been
\* recorded for the address, through connections admitted before the ban, and
\* ban-until is what it was.
C13_Witness ==
    \E ip \in FriendlyIPs :
        /\ lastOp.kind = "login" /\ lastOp.ip[1] = ip
        /\ BanInForce(ip)
        /\ BAN_MAP[ip] < now + BAN_DURATION_MS
        /\ ip \in DOMAIN failCounts /\ failCounts[ip].count = FAIL_MAX - 1
        /\ failCounts[ip].firstFailTs = now


(***************************************************************************)
(* C14: stopInstance of proxy.js issues a stop command only if the state   *)
(* it observes is running, so that calls on a backend that does not run,   *)
(* repeated or concurrent, issue none; and after a successful stop the     *)
(* cached address and the readiness are invalidated (backendHost = null,   *)
(* backendReady = false).                                                  *)
(***************************************************************************)
\* The step is the return of describeInstance() to a call of stopInstance.
StopObserves ==
    \E task \in BagToSet(stopTasks) :
        task.pc = "describing" /\ BagCardinality(stopTasks') <= BagCardinality(stopTasks)
                               /\ stopTasks' # stopTasks
\* The step is the return of an accepted stop command to stopInstance.
StopSucceeds ==
    /\ \E task \in BagToSet(stopTasks) :
          task.pc = "sending" /\ stopTasks' = Without(stopTasks, task)
    /\ ec2.state = "running" => ec2'.state = "stopping"
    /\ ec2.state # "running" => ec2' = ec2

C14_StopOnlyWhenRunning ==
    [][prog = "proxy" =>
          /\ stopCmds' # stopCmds => stopCmds' = stopCmds + 1 /\ ec2.state = "running"
          /\ StopObserves /\ ec2.state # "running" => stopCmds' = stopCmds
          /\ StopSucceeds => backendHost' = None /\ ~backendReady']_vars

\* C14 witness: a call of stopInstance has sent the one stop command, the
\* backend is invalidated, and a later call has found the instance stopping
\* and sent nothing.
C14_Witness ==
    /\ prog = "proxy"
    /\ lastOp.kind = "stopDescribed" /\ ~lastOp.ok
    /\ stopCmds = 1
    /\ ec2.state = "stopping"
    /\ stopTasks = EmptyBag
    /\ backendHost = None /\ ~backendReady


(***************************************************************************)
(* C15: a call of startInstance() of proxy.js made within the debounce     *)
(* window (30 s) of the last issued start command is a no-op, with no      *)
(* provider call, no start command and no poll loop; and a call is         *)
(* suppressed by the debounce only if a start command was issued within    *)
(* the window.                                                             *)
(***************************************************************************)
\* The step is a call of startInstance(); it is suppressed when it returns
\* before its describeInstance().
StartCalled == prog = "proxy" /\ calls' = calls + 1
StartSuppressed ==
    /\ StartCalled
    /\ UNCHANGED <<lastStartRequest, startTasks, polls, startCmds>>
StartCommandInWindow == startCmdAt # << >> /\ now - startCmdAt[1] < START_DEBOUNCE_MS

C15_DebounceFollowsStartCommand ==
    [][StartCalled => (StartSuppressed <=> StartCommandInWindow)]_vars

\* What the code keeps of C15: a call is suppressed if and only if the last
\* call that was not suppressed was made within the window, whether or not
\* that call has issued a start command.
C15_DebounceFollowsLastCall ==
    [][StartCalled =>
          (StartSuppressed <=> now - lastStartRequest < START_DEBOUNCE_MS)]_vars

\* The second half of C15 for calls made while no call and no poll loop is in
\* flight: such a call is suppressed only after a start command.
C15_IdleSuppressedOnlyAfterCommand ==
    [][StartSuppressed /\ startTasks = EmptyBag /\ polls = EmptyBag
          => startCmdAt # << >>]_vars


(***************************************************************************)
(* C16: a session is in the active-session set only if its connection to   *)
(* the backend has succeeded; a client whose backend connect is pending,   *)
(* has failed or was torn down before connecting is not a member           *)
(* (activeSockets in proxy.js, activePlayers in the login proxy).          *)
(***************************************************************************)
C16_ActiveOnlyIfConnected ==
    /\ prog = "proxy" => \A c \in activeSockets : socks[c] = "active"
    /\ prog = "login" => \A u \in activePlayers : logins[u] = "active"

\* C16 for proxy.js alone.
C16_ActiveSocketsConnected ==
    prog = "proxy" => \A c \in Sessions : c \in activeSockets <=> socks[c] = "active"


(***************************************************************************)
(* C17: no dangling sessions.  When either side of a forwarded session     *)
(* closes, or the backend connect fails, the other side is closed as well: *)
(* in the router, once the client socket is closed no connection to a      *)
(* backend made for it is left open or being opened, and once every        *)
(* backend connection made for a client has closed or failed the client    *)
(* has been ended.                                                         *)
(***************************************************************************)
BackendOpen(i) == backends[i].st \in {"connecting", "connected"}

C17_NoDanglingSide ==
    prog = "router" =>
        /\ clientSock = "destroyed" => \A i \in 1..Len(backends) : ~BackendOpen(i)
        /\ (backends # << >> /\ \A i \in 1..Len(backends) : ~BackendOpen(i))
              => clientSock # "open"

\* The half of C17 the router keeps: a client whose backend connections have
\* all closed or failed is ended.
C17_ClientEndedWithBackend ==
    prog = "router" =>
        ((backends # << >> /\ \A i \in 1..Len(backends) : ~BackendOpen(i))
            => clientSock # "open")


(***************************************************************************)
(* C18: a VarInt field of more than 5 bytes is fatal and is not the same   *)
(* as needing more data.  Once the buffer holds such a field (as the       *)
(* packet length, or as the protocol version of a complete packet) the     *)
(* client has been ended, the connection is marked routed without ever     *)
(* having been handed to a backend or to the kick responder, and later     *)
(* data changes nothing; a buffer that only ends before a VarInt or the    *)
(* declared packet is complete leaves the connection open and unrouted.    *)
(***************************************************************************)
\* Six bytes at offset, the first five with the continuation bit.
OversizeAt(buf, offset) ==
    /\ Len(buf) >= offset + 6
    /\ \A j \in 1..5 : buf[offset + j] >= 128

Malformed(buf) ==
    \/ OversizeAt(buf, 0)
    \/ /\ Len(buf) >= 2 /\ buf[1] < 128 /\ buf[2] < 128
       /\ Len(buf) >= 1 + buf[1]
       /\ OversizeAt(buf, 2)

NeverForwarded == backends = << >> /\ awaiting = 0 /\ decisions = << >>

C18_MalformedVarIntFatal ==
    /\ [](prog = "router" =>
            /\ Malformed(buffer) => routed /\ clientSock # "open" /\ NeverForwarded
            /\ (~Malformed(buffer) /\ parseHandshake(buffer).st = "incomplete")
                  => ~routed /\ clientSock # "ended" /\ NeverForwarded)
    /\ [][(prog = "router" /\ Malformed(buffer)) => buffer' = buffer /\ routed']_vars

\* The malformed field was met, the client was ended, and data that came
\* after it was dropped.
C18_Witness ==
    /\ prog = "router" /\ Malformed(buffer) /\ clientSock = "ended"
    /\ sent > Len(buffer)

\* A buffer of five continuation bytes waits for the sixth.
C18_WitnessNeedMore ==
    /\ prog = "router" /\ Len(buffer) = 5 /\ stream \in {OversizeVarInt, OversizeThenMore}
    /\ ~routed /\ clientSock = "open"


(***************************************************************************)
(* C19: a connection goes to the kick responder, never to a real backend,  *)
(* when no route matches, the route type is unknown, the describe call     *)
(* fails, or the instance is not running with an address.  A background    *)
(* start is requested in the last case and in no other; a describe failure *)
(* requests no start and no further describe call.                         *)
(***************************************************************************)
LastBackend == backends'[Len(backends')]
OneMoreBackend == Len(backends') = Len(backends) + 1
\* startInstanceBackground() was called: it is in progress afterwards, from
\* this call or from an earlier one.
StartRequested ==
    /\ startInProgress'
    /\ IF startInProgress THEN UNCHANGED bgVars ELSE bg' # bg
\* The handler decided in this step without a describe call.
DecidedAtOnce == Len(decisions') = Len(decisions) + 1 /\ awaiting' = awaiting
Decision == decisions'[Len(decisions')]

C19_WitnessUnknownType ==
    /\ prog = "router" /\ decisions # << >> /\ decisions[1].route = U1
    /\ Len(backends) = 1 /\ backends[1].target = KICK_TARGET /\ ~startInProgress



(***************************************************************************)
(* C20: a reload replaces the route table in one step, and every lookup is *)
(* answered from the one table current when it is made: the result is an   *)
(* entry of that table, chosen by that table's entries alone, whatever the *)
(* table before the reload held.                                           *)
(***************************************************************************)
TableVals(t) == {t[i].val : i \in 1..Len(t)}
InheritedVals == {e.val : e \in ObjectPrototype}

C20_LookupAgainstOneTable ==
    /\ [](prog = "route" /\ lookup # << >> =>
            /\ lookup[2] \in TableVals(ROUTES) \cup InheritedVals \cup {null}
            /\ C10_PrecedenceOwnKeys)
    /\ [][prog = "route" =>
            /\ ROUTES' # ROUTES => ROUTES' \in Tables /\ lookup' = << >>
            /\ lookup' # lookup => (lookup' = << >> \/ ROUTES' = ROUTES)]_vars

\* A lookup after a reload that the table before the reload would have
\* answered with another route.
C20_Witness ==
    /\ prog = "route" /\ lastOp.kind = "loadRoutes" /\ lookup # << >>
    /\ lastOp.aux # ROUTES
    /\ findRouteFor(lastOp.aux, lookup[1]) \in TableVals(lastOp.aux) \ TableVals(ROUTES)
    /\ lookup[2] \in TableVals(ROUTES) \ TableVals(lastOp.aux)


(***************************************************************************)
(* C21: once the handshake has been recognized, later data events make no  *)
(* second routing decision: at most one backend connection (proxyToBackend *)
(* or proxyToLocalKick) is ever made for a client connection, also when    *)
(* chunks arrive while the describe call of an ec2 route is pending.       *)
(***************************************************************************)
C21_OneBackendPerClient ==
    prog = "router" => Len(backends) + awaiting <= 1 /\ Len(decisions) <= 1

\* What the router keeps: a connection routed without a describe call (local
\* route, no route, unknown type) gets exactly one backend connection.
C21_OneBackendWithoutDescribe ==
    (prog = "router" /\ decisions # << >> /\ decisions[1].route.type # "ec2")
        => Len(backends) = 1 /\ Len(decisions) = 1 /\ awaiting = 0


(***************************************************************************)
(* C22: in forward mode the shutdown timer follows the active set: it is   *)
(* armed when the set goes from non-empty to empty and disarmed when the   *)
(* set becomes non-empty, so no timer is pending while a session is        *)
(* active.                                                                 *)
(***************************************************************************)
C22_NoTimerWhileActive ==
    prog = "proxy" => (activeSockets # {} => shutdownTimer = << >>)

\* The arming half, which the code keeps: a step that empties the active set
\* leaves a timer pending, due SHUTDOWN_IDLE_MINUTES later when none was.
C22_EmptyingArms ==
    [][(prog = "proxy" /\ activeSockets # {} /\ activeSockets' = {}) =>
          /\ shutdownTimer' # << >>
          /\ shutdownTimer = << >> => shutdownTimer' = <<now + SHUTDOWN_IDLE_MS>>]_vars


(***************************************************************************)
(* C23: when the shutdown timer expires, stop is called if and only if no  *)
(* session is active at that moment; with a session active the expiry      *)
(* calls no stop.  Either way the timer is cleared.                        *)
(***************************************************************************)
TimerExpires == Called("idleStop", None) \/ Called("idleAbort", None)
StopCalled == stopTasks' = With(stopTasks, StopTask("timer"))

C23_ExpiryStopsIffIdle ==
    [][(prog = "proxy" /\ TimerExpires) =>
          /\ shutdownTimer # << >> /\ now >= shutdownTimer[1]
          /\ shutdownTimer' = << >>
          /\ activeSockets' = activeSockets
          /\ activeSockets = {} => StopCalled /\ Called("idleStop", None)
          /\ activeSockets # {} => UNCHANGED <<stopTasks, stopCmds>> /\ Called("idleAbort", None)
    ]_vars

\* The timer has expired with a session active: no stop was called and no
\* timer is left.
C23_Witness ==
    /\ prog = "proxy" /\ lastOp.kind = "idleAbort"
    /\ activeSockets # {} /\ shutdownTimer = << >>
    /\ stopTasks = EmptyBag /\ stopCmds = 0

\* The timer has expired with no session active: stop was called.
C23_WitnessStop ==
    /\ prog = "proxy" /\ lastOp.kind = "idleStop"
    /\ activeSockets = {} /\ shutdownTimer = << >>
    /\ BagCardinality(stopTasks) = 1


(***************************************************************************)
(* C24: liveness of the idle shutdown.  From any state where the instance  *)
(* runs, the proxy is ready and no session is active, the scheduler        *)
(* eventually calls stop, unless a session arrives or the backend leaves   *)
(* the ready state first; also when no session was ever forwarded since    *)
(* the backend became ready.                                               *)
(***************************************************************************)
IdleAndReady ==
    /\ prog = "proxy" /\ backendReady /\ tcpServer /\ ec2.state = "running"
    /\ \A c \in Sessions : socks[c] = "none"
\* The clock of the model has stopped before the idle period has elapsed, or
\* before a pending timer is due.
ClockEndsEarly ==
    /\ ticks = MaxTicks
    /\ \/ now - emptySince < SHUTDOWN_IDLE_MS
       \/ shutdownTimer # << >> /\ now < shutdownTimer[1]
StopWasCalled == stopTasks # EmptyBag \/ lastOp.kind = "idleStop"

C24_IdleEventuallyStops ==
    [](IdleAndReady => <>(StopWasCalled \/ ~IdleAndReady \/ ClockEndsEarly))


\* What the timer does give: once a timer is pending, the stop is called
\* unless a session arrives or the backend leaves the ready state first.
C24_PendingTimerStops ==
    []((IdleAndReady /\ shutdownTimer # << >>)
          => <>(StopWasCalled \/ ~IdleAndReady \/ ClockEndsEarly))


(***************************************************************************)
(* C25: every readiness poll sequence terminates.  It ends at a successful *)
(* probe or once its deadline has passed; an error in one iteration is     *)
(* followed by the sleep of the loop, never by an immediate retry; no stop *)
(* command is sent; and when it has ended the in-flight marker is clear,   *)
(* so that a later call can begin a new sequence.                          *)
(***************************************************************************)
\* The polls of proxy.js that stand at pc.
PollsAt(pc) == {poll \in BagToSet(polls) : poll.pc = pc}
APollEnds == BagCardinality(polls') < BagCardinality(polls)
\* The model's clock has stopped while a poll of proxy.js sleeps.
ClockStopsPoll == ticks = MaxTicks /\ PollsAt("sleeping") # {}

C25_RouterPollStep ==
    /\ bg'.pc = "describing" /\ bg.pc # "describing" => bg.pc = "sleeping"
    /\ bg'.pc = "sleeping" => bg'.elapsed < START_TIMEOUT_MS
    /\ (bg' = BgIdle /\ bg # BgIdle) =>
          /\ bg.pc = "probing" \/ bg.elapsed >= START_TIMEOUT_MS
          /\ ~startInProgress'
    /\ UNCHANGED stopCmds

C25_ProxyPollStep ==
    /\ \A poll \in BagToSet(polls') :
          (poll.pc = "describing" /\ CopiesIn(poll, polls') > CopiesIn(poll, polls)) =>
              \/ poll = NewPoll
              \/ [poll EXCEPT !.pc = "waking"] \in BagToSet(polls) /\ now < poll.deadline
    /\ APollEnds =>
          /\ \/ PollsAt("probing") # {}
             \/ \E poll \in PollsAt("waking") : now >= poll.deadline
          /\ ~starting'
    /\ UNCHANGED <<stopCmds, stopTasks>>

C25_PollsTerminate ==
    /\ [](prog = "routerStart" => (startInProgress <=> bg # BgIdle))
    /\ [][prog = "routerStart" => C25_RouterPollStep]_vars
    /\ [][prog = "proxy" => C25_ProxyPollStep]_vars
    /\ [](prog = "routerStart" /\ startInProgress => <>(~startInProgress))
    /\ [](prog = "proxy" /\ polls # EmptyBag => <>(polls = EmptyBag \/ ClockStopsPoll))

\* A sequence of the router has ended with the instance not up, and a later
\* call has begun a new one.
C25_Witness ==
    /\ prog = "routerStart" /\ calls = 2 /\ startCmds = 2
    /\ bg.pc = "sending" /\ startInProgress /\ ec2.state = "stopped"
    /\ ~burst.open

\* A poll of proxy.js has ended at its deadline: the flag is clear, the
\* proxy is still in friendly mode and has sent no stop command.
C25_WitnessTimeout ==
    /\ prog = "proxy" /\ polls = EmptyBag /\ startTasks = EmptyBag /\ startCmds = 1
    /\ ~starting /\ ~backendReady /\ mcServer /\ stopCmds = 0


(***************************************************************************)
(* C26: the periodic check of proxy.js reconciles without any client.  A   *)
(* check that finds the instance running with an address while the backend *)
(* is not ready switches to forward mode for that address; one that finds  *)
(* it not running while the backend is ready clears address and readiness  *)
(* and switches to friendly mode; one whose provider call fails, or that   *)
(* finds neither, leaves readiness, address and serving mode as they are.  *)
(***************************************************************************)
CheckReturns == reconciles' = reconciles - 1
RunningWithAddress == ec2.state = "running" /\ ec2.host # None

C26_WitnessBack ==
    /\ prog = "proxy" /\ startCmds > 0
    /\ lastOp.kind = "reconcile" /\ lastOp.ok /\ ec2.state # "running"
    /\ ~backendReady /\ backendHost = None /\ mcServer /\ ~tcpServer
    /\ polls = EmptyBag /\ startTasks = EmptyBag /\ ~starting


(***************************************************************************)
(* C27: no client byte is lost, duplicated or reordered on the way to the  *)
(* backend: whatever the timing of the client's chunks, of the routing     *)
(* decision and of the backend connect, what a backend has been written is *)
(* a prefix of what the client has sent.                                   *)
(***************************************************************************)
IsPrefix(a, b) == Len(a) <= Len(b) /\ SubSeq(b, 1, Len(a)) = a

C27_BackendGetsPrefix ==
    prog = "router" =>
        \A i \in 1..Len(backends) :
            backends[i].target # KICK_TARGET =>
                IsPrefix(backends[i].written, SubSeq(stream, 1, sent))

\* What does hold: a backend that is connected before any byte after the
\* routing decision arrives is written every byte the client sent.
C27_NothingLostWhenConnectedFirst ==
    (prog = "router" /\ Len(backends) = 1 /\ backends[1].st = "connected"
       /\ Len(backends[1].first) = sent) => backends[1].written = SubSeq(stream, 1, sent)


(***************************************************************************)
(* C28: a stop command that comes from the idle scheduler is never sent    *)
(* while a forwarded session is active: when the command is issued, after  *)
(* the describe call that precedes it, the active set is empty (the timer  *)
(* of proxy.js and the minute check of the login proxy).                   *)
(***************************************************************************)
\* The stopInstance call made by the shutdown timer sends its stop command.
TimerStopIssued ==
    /\ prog = "proxy" /\ stopCmds' = stopCmds + 1
    /\ \E task \in BagToSet(stopTasks) :
          /\ task.by = "timer" /\ task.pc = "describing"
          /\ stopTasks' = Replace(stopTasks, task, [task EXCEPT !.pc = "sending"])
\* The idle check of the login proxy sends its stop command.
CheckStopIssued == prog = "login" /\ stopCmds' = stopCmds + 1

C28_NoIdleStopWhileActive ==
    [][/\ TimerStopIssued => activeSockets = {}
       /\ CheckStopIssued => \A u \in Players : logins[u] # "active"]_vars

\* What the schedulers do check: the set is empty when they decide to stop,
\* before the describe call.
C28_EmptyAtDecision ==
    [][/\ (prog = "proxy" /\ StopCalled /\ Called("idleStop", None)) => activeSockets = {}
       /\ (prog = "login" /\ BagCardinality(idleChecks') > BagCardinality(idleChecks))
             => activePlayers = {}]_vars


(***************************************************************************)
(* The serving mode of proxy.js.                                           *)
(***************************************************************************)
\* Every close() that was called has had its callback or its timer.
ClosesSettled == ~mcClosing /\ ~tcpClosing /\ CloseTimersDone

\* C29: in proxy.js, after main() has set the friendly mode up and after any
\* mode switches by a successful poll, stop() and the 30 s check, in any
\* order with the deferred close callbacks, one of the two servers listens
\* at all times; and once the pending closes have settled exactly one of
\* mcServer and tcpServer exists, tcpServer if and only if backendReady.
C29_ServingModeConsistent ==
    prog = "mode" =>
        /\ McListening \/ TcpListening
        /\ ClosesSettled => /\ mcServer # tcpServer
                            /\ tcpServer <=> backendReady

\* C29, the part that holds: the two servers never listen at once, and the
\* forwarding server listens only while backendReady is set.
C29_NeverBothListening ==
    prog = "mode" =>
        /\ ~(McListening /\ TcpListening)
        /\ TcpListening => backendReady

====
